---- MODULE Spec2Model ----
(***************************************************************************)
(* Model of the ottoscalr recommendation engine (package reco):            *)
(*   - simulateHPA, hasNoBreachOccurred, calculateSavings and              *)
(*     findOptimalHPAConfigurations of reco.go,                            *)
(*   - CpuUtilizationBasedRecommender.Recommend of reco.go,                *)
(*   - RecommendationWorkflowImpl.Execute and its helpers of workflow.go.  *)
(*                                                                         *)
(* Numbers.  The Go code works on float64.  Demand values and per-pod      *)
(* resources are modelled as naturals in one common resource unit, and     *)
(* redLineUtil as the fraction RedLineNum / RedLineDen.  A simulated       *)
(* point's Value (readyResources * redLineUtil) is kept as the numerator   *)
(* readyResources * RedLineNum over the denominator RedLineDen, so that    *)
(* every comparison of the code is an exact integer comparison.            *)
(* Timestamps are naturals; consecutive data points are MetricStep apart.  *)
(***************************************************************************)
EXTENDS Integers, Sequences, FiniteSets, TLC

VARIABLES
    \* ---- simulateHPA (reco.go:171-235) ----
    dataPoints,               \* demand series handed to the simulator
    acl,                      \* autoscaling cycle lag
    targetUtilization,        \* the target passed by the caller (before the 1.1 factor)
    perPodResources,
    maxReplicas,
    minReplicas,
    readyResources,
    readyResourcesTimerList,  \* pending upscales: Seq([Timestamp, Delta])
    calculatedMinReplicas,
    simulatedDataPoints,      \* supply series built so far
    simPc,                    \* position inside simulateHPA
    \* ---- findOptimalHPAConfigurations (reco.go:246-294) ----
    minTarget,
    maxTarget,
    optimalTargetThreshold,
    optimalMin,
    savings,                  \* best savings so far, a fraction [num, den]
    high,                     \* upper end of the inner search when it stopped
    simulatedHPAList,         \* supply series of the last simulation of the inner search
    calculatedMin,            \* observed minimum of that simulation
    searchPc,                 \* position inside findOptimalHPAConfigurations
    searchResult,             \* the returned (target, min, max, err)
    \* ---- RecommendationWorkflowImpl.Execute (workflow.go:119-159) ----
    recommender,              \* rw.recommender: "nil" or "set"
    ctxCancelled,             \* the caller's ctx is cancelled
    calledWhileCancelled,     \* a collaborator was called after the cancellation
    storeRead,                \* GetSortedPolicies was called
    recommenderOut,           \* what rw.recommender.Recommend returns: [config, err]
    iteratorOut,              \* what each policy iterator's NextPolicy returns: [policy, err]
    policyStoreOut,           \* what rw.policyStore.GetSortedPolicies returns: [policies, err]
    minRequiredReplicas,
    targetRecoConfig,
    nextPolicy,
    pendingIterators,         \* keys of rw.policyIterators the range loop has not visited
    wfPc,                     \* position inside Execute
    execResult,               \* the returned (nextConfig, targetRecoConfig, policy, err)
    \* ---- CpuUtilizationBasedRecommender.Recommend (reco.go:88-157) ----
    metricWindow,             \* c.metricWindow, whole seconds
    metricStep,               \* c.metricStep, whole seconds
    metricsPercentageThreshold,
    metricsTransformer,       \* number of transformers in c.metricsTransformer
    transformed,              \* transformers applied so far
    scraped,                  \* the series as the scraper returned it
    calls,                    \* collaborator calls made so far, in order
    recoPc,                   \* position inside Recommend
    recoResult,               \* the returned (*HPAConfiguration, error)
    \* ---- AgingPolicyIterator.NextPolicy (policyiterators.go:60-98) ----
    policyreco,               \* the persisted record: [Policy, TransitionedAt]
    Age,                      \* pi.Age
    now,                      \* metav1.Now()
    agingOut,                 \* what the last call returned: [policy, err, at]
    agingPrev,                \* the policy of the successful call before it
    \* ---- CpuUtilizationBasedRecommender.getMaxPods (reco.go:321-347) ----
    kindKnown,                \* clientsRegistry.GetObjectClient(objectKind) succeeds
    annotationOut,            \* GetMaxReplicaFromAnnotation: [value, err]
    scaledObjectsOut,         \* k8sClient.List: [items, err], an item is its MaxReplicaCount
                              \* pointer: [set, value], set = FALSE for nil
    replicaCountOut,          \* GetReplicaCount: [value, err]
    maxPodsCalls,             \* collaborator calls made so far, in order
    maxPodsPc,                \* position inside getMaxPods
    maxPodsResult,            \* the returned (int, error)
    \* ---- RecoWorkflowBuilder (workflow.go:56-117) ----
    builder,                  \* the fields of *RecoWorkflowBuilder; policyIterators is
                              \* "nil" or "map", the reference to the map it made
    iteratorMap,              \* the keys of that map
    built,                    \* the *RecommendationWorkflowImpl Build returned, or nil
    builtWith,                \* what the workflow held when Build returned
    buildErr                  \* the error of the last Build

simVars == <<dataPoints, acl, targetUtilization, perPodResources, maxReplicas,
             minReplicas, readyResources, readyResourcesTimerList,
             calculatedMinReplicas, simulatedDataPoints, simPc>>

searchVars == <<minTarget, maxTarget, optimalTargetThreshold, optimalMin, savings,
                high, simulatedHPAList, calculatedMin, searchPc, searchResult>>

wfVars == <<recommender, ctxCancelled, calledWhileCancelled, storeRead,
            recommenderOut, iteratorOut, policyStoreOut, minRequiredReplicas,
            targetRecoConfig, nextPolicy, pendingIterators, wfPc, execResult>>

recoVars == <<metricWindow, metricStep, metricsPercentageThreshold, metricsTransformer,
              transformed, scraped, calls, recoPc, recoResult>>

agingVars == <<policyreco, Age, now, agingOut, agingPrev>>

maxPodsVars == <<kindKnown, annotationOut, scaledObjectsOut, replicaCountOut,
                 maxPodsCalls, maxPodsPc, maxPodsResult>>

builderVars == <<builder, iteratorMap, built, builtWith, buildErr>>

auxVars == <<agingVars, maxPodsVars, builderVars>>

vars == <<simVars, searchVars, wfVars, recoVars, auxVars>>

-----------------------------------------------------------------------------
\* Bounds of the model.
MaxLen == 4            \* longest demand series
MaxValue == 5          \* largest demand value (resource units)
MaxAcl == 2            \* largest cycle lag (time units)
MaxReplicasBound == 3  \* largest replica cap of a workload
PerPod == 4            \* per-pod resources (resource units)
MinTarget == 45        \* engine-wide lower target bound
TargetSpan == 2        \* maxTarget = MinTarget + TargetSpan
MetricStep == 1        \* distance of two data points (time units)
RedLineNum == 4        \* redLineUtil = RedLineNum / RedLineDen
RedLineDen == 5

MaxCfgMin == 4         \* largest Min of a recommended configuration
MaxCfgMax == 10        \* largest Max of a recommended configuration
MaxMinRequired == 3    \* largest minRequiredReplicas of a workflow
MaxScaledObjects == 2  \* most ScaledObjects the list call returns
MaxNow == 4            \* latest instant of the clock
MaxAge == 2            \* longest expiry age of the aging iterator
MaxTransitionedAt == 2 \* latest transitionedAt of a persisted record
RecoMaxLen == 2        \* longest series the scraper returns to Recommend
MaxTransformers == 2   \* most transformers a recommender is built with
SearchMaxLen == 3      \* longest demand series handed to the search
HighTarget == 91       \* a lower target bound whose range leaves 1..100 after the 1.1 factor

MaxTarget == MinTarget + TargetSpan

-----------------------------------------------------------------------------
\* Arithmetic helpers.
Min2(a, b) == IF a <= b THEN a ELSE b
Max2(a, b) == IF a >= b THEN a ELSE b

\* math.Ceil(a / b) for a >= 0, b > 0
CeilDiv(a, b) == (a + b - 1) \div b

\* int(math.Floor(float64(targetUtilization) * 1.1)).  The double nearest 1.1
\* is above 1.1 by less than 1e-16, and t * 1.1 is within 1/10 of an integer
\* only when 11t/10 is that integer, so the floor equals floor(11 t / 10).
EffectiveTarget(t) == (t * 11) \div 10

\* math.Ceil((100 * value) / float64(targetUtilization) / perPodResources)
DesiredReplicas(value, effTarget, perPod) == CeilDiv(100 * value, effTarget * perPod)

\* math.Min(float64(maxReplicas), math.Max(float64(minReplicas), desired))
ClampReplicas(desired, maxR, minR) == Min2(maxR, Max2(minR, desired))

DataPoint(ts, v) == [Timestamp |-> ts, Value |-> v]
TimerEvent(ts, d) == [Timestamp |-> ts, Delta |-> d]

RECURSIVE SumDelta(_)
SumDelta(timers) ==
    IF timers = <<>> THEN 0 ELSE Head(timers).Delta + SumDelta(Tail(timers))

\* reco.go:202-205: consume the timers that fire at or before ts.
RECURSIVE DrainTimers(_, _, _)
DrainTimers(ready, timers, ts) ==
    IF timers # <<>> /\ ~(ts < Head(timers).Timestamp)
    THEN DrainTimers(ready + Head(timers).Delta, Tail(timers), ts)
    ELSE [ready |-> ready, timers |-> timers]

\* reco.go:188-197: the state after the first data point.
SimFirst(dp, effTarget, perPod, maxR, minR) ==
    LET desired == DesiredReplicas(dp.Value, effTarget, perPod)
        currentReplicas == ClampReplicas(desired, maxR, minR)
        currentResources == currentReplicas * perPod
    IN [ready   |-> currentResources,
        timers  |-> <<>>,
        calcMin |-> desired,
        sim     |-> <<DataPoint(dp.Timestamp, currentResources * RedLineNum)>>]

\* Mutant of ScaleDecision: the whole shortfall is queued, pending upscales
\* are not subtracted.
ScaleDecision_FullShortfall(ready, timers, newResources, ts, lag) ==
    IF newResources > ready
    THEN [ready  |-> ready,
          timers |-> Append(timers, TimerEvent(ts + lag, newResources - ready))]
    ELSE [ready |-> newResources, timers |-> <<>>]

\* Mutant of ScaleDecision: an upscale is ready at once instead of being queued.
ScaleDecision_Instant(ready, timers, newResources, ts, lag) ==
    [ready |-> newResources,
     timers |-> IF newResources > ready THEN timers ELSE <<>>]

\* reco.go:212-228: the scaling decision of one loop iteration, after the drain.
ScaleDecision(ready, timers, newResources, ts, lag) ==
    IF newResources > ready
    THEN LET delta == (newResources - ready) - SumDelta(timers)
         IN [ready  |-> ready,
             timers |-> IF delta > 0
                        THEN Append(timers, TimerEvent(ts + lag, delta))
                        ELSE timers]
    ELSE [ready |-> newResources, timers |-> <<>>]

\* reco.go:199-232: one iteration of the loop over dataPoints[1:].
SimStep(st, dp, lag, effTarget, perPod, maxR, minR) ==
    LET drained == DrainTimers(st.ready, st.timers, dp.Timestamp)
        desired == DesiredReplicas(dp.Value, effTarget, perPod)
        newReplicas == ClampReplicas(desired, maxR, minR)
        newResources == newReplicas * perPod
        dec == ScaleDecision(drained.ready, drained.timers, newResources,
                             dp.Timestamp, lag)
    IN [ready   |-> dec.ready,
        timers  |-> dec.timers,
        calcMin |-> Min2(st.calcMin, desired),
        sim     |-> Append(st.sim, DataPoint(dp.Timestamp, dec.ready * RedLineNum))]

\* (st.sim is never empty; testing it makes TLC evaluate st at every step
\* instead of nesting the steps of a long series.)
RECURSIVE SimFold(_, _, _, _, _, _, _)
SimFold(st, rest, lag, effTarget, perPod, maxR, minR) ==
    IF rest = <<>> \/ st.sim = <<>> THEN st
    ELSE SimFold(SimStep(st, Head(rest), lag, effTarget, perPod, maxR, minR),
                 Tail(rest), lag, effTarget, perPod, maxR, minR)

\* reco.go:171-235: ([]DataPoint, int, error) as [sim, calcMin, err].
simulateHPA(points, lag, target, perPod, maxR, minR) ==
    LET effTarget == EffectiveTarget(target)
    IN IF Len(points) = 0
       THEN [sim |-> <<>>, calcMin |-> 0, err |-> FALSE]
       ELSE IF effTarget < 1 \/ effTarget > 100
       THEN [sim |-> <<>>, calcMin |-> 0, err |-> TRUE]
       ELSE LET st == SimFold(SimFirst(Head(points), effTarget, perPod, maxR, minR),
                              Tail(points), lag, effTarget, perPod, maxR, minR)
            IN [sim |-> st.sim, calcMin |-> st.calcMin, err |-> FALSE]

-----------------------------------------------------------------------------
\* Values of the variables of a component that a specification does not run.
NoResult == [target |-> 0, min |-> 0, max |-> 0, err |-> "none"]
ZeroSavings == [num |-> 0, den |-> 1]

\* nil pointers (*HPAConfiguration, *Policy)
Nil == [nil |-> TRUE]

NoExecResult == [nextConfig |-> Nil, targetRecoConfig |-> Nil, policy |-> Nil,
                 err |-> "none"]

WfIdle ==
    /\ recommender = "nil"
    /\ ctxCancelled = FALSE
    /\ calledWhileCancelled = FALSE
    /\ storeRead = FALSE
    /\ recommenderOut = [config |-> Nil, err |-> "nil"]
    /\ iteratorOut = <<>>
    /\ policyStoreOut = [policies |-> <<>>, err |-> "nil"]
    /\ minRequiredReplicas = 0
    /\ targetRecoConfig = Nil
    /\ nextPolicy = Nil
    /\ pendingIterators = {}
    /\ wfPc = "idle"
    /\ execResult = NoExecResult

NoRecoResult == [config |-> Nil, err |-> "none"]

RecoIdle ==
    /\ metricWindow = 1
    /\ metricStep = 1
    /\ metricsPercentageThreshold = 0
    /\ metricsTransformer = 0
    /\ transformed = 0
    /\ scraped = <<>>
    /\ calls = <<>>
    /\ recoPc = "idle"
    /\ recoResult = NoRecoResult

NoAgingOut == [policy |-> Nil, err |-> "none", at |-> 0]

AgingIdle ==
    /\ policyreco = [Policy |-> "", TransitionedAt |-> 0]
    /\ Age = 0
    /\ now = 0
    /\ agingOut = NoAgingOut
    /\ agingPrev = Nil

NoMaxPodsResult == [value |-> 0, err |-> "none"]

MaxPodsIdle ==
    /\ kindKnown = FALSE
    /\ annotationOut = [value |-> 0, err |-> "nil"]
    /\ scaledObjectsOut = [items |-> <<>>, err |-> "nil"]
    /\ replicaCountOut = [value |-> 0, err |-> "nil"]
    /\ maxPodsCalls = <<>>
    /\ maxPodsPc = "idle"
    /\ maxPodsResult = NoMaxPodsResult

\* workflow.go:115-117: &RecoWorkflowBuilder{}
NewRecommendationWorkflowBuilder ==
    [recommender |-> "nil", policyIterators |-> "nil", policyStore |-> "nil",
     logger |-> "zero", minRequiredReplicas |-> 0]

BuilderIdle ==
    /\ builder = NewRecommendationWorkflowBuilder
    /\ iteratorMap = {}
    /\ built = Nil
    /\ builtWith = Nil
    /\ buildErr = "none"

AuxIdle ==
    /\ AgingIdle
    /\ MaxPodsIdle
    /\ BuilderIdle

SearchIdle ==
    /\ minTarget = MinTarget
    /\ maxTarget = MaxTarget
    /\ optimalTargetThreshold = 0
    /\ optimalMin = 0
    /\ savings = ZeroSavings
    /\ high = 0
    /\ simulatedHPAList = <<>>
    /\ calculatedMin = 0
    /\ searchPc = "idle"
    /\ searchResult = NoResult

-----------------------------------------------------------------------------
\* The simulator as a state machine: the series is consumed point by point,
\* one action per data point, the caller deciding where the series ends.

SimTargets == {0} \cup (MinTarget .. MaxTarget)

SimInit ==
    /\ dataPoints = <<>>
    /\ acl \in 0 .. MaxAcl
    /\ targetUtilization \in SimTargets
    /\ perPodResources = PerPod
    /\ maxReplicas \in 1 .. MaxReplicasBound
    /\ minReplicas \in 1 .. maxReplicas
    /\ readyResources = 0
    /\ readyResourcesTimerList = <<>>
    /\ calculatedMinReplicas = 0
    /\ simulatedDataPoints = <<>>
    /\ simPc = "entry"
    /\ SearchIdle
    /\ WfIdle
    /\ RecoIdle
    /\ AuxIdle

SimFrame ==
    UNCHANGED <<acl, targetUtilization, perPodResources, maxReplicas, minReplicas,
                searchVars, wfVars, recoVars, auxVars>>

\* reco.go:178-180: len(dataPoints) == 0
SimulateEmpty ==
    /\ simPc = "entry"
    /\ simPc' = "returned"
    /\ UNCHANGED <<dataPoints, readyResources, readyResourcesTimerList,
                   calculatedMinReplicas, simulatedDataPoints>>
    /\ SimFrame

\* reco.go:181-184: a non-empty series with an effective target outside 1..100
SimulateInvalidTarget ==
    /\ simPc = "entry"
    /\ \E v \in 0 .. MaxValue :
          dataPoints' = <<DataPoint(0, v)>>
    /\ ~(EffectiveTarget(targetUtilization) \in 1 .. 100)
    /\ simPc' = "error"
    /\ UNCHANGED <<readyResources, readyResourcesTimerList,
                   calculatedMinReplicas, simulatedDataPoints>>
    /\ SimFrame

\* reco.go:186-197: bootstrap from dataPoints[0]
SimulateFirst ==
    /\ simPc = "entry"
    /\ EffectiveTarget(targetUtilization) \in 1 .. 100
    /\ \E v \in 0 .. MaxValue :
          LET dp == DataPoint(0, v)
              st == SimFirst(dp, EffectiveTarget(targetUtilization),
                             perPodResources, maxReplicas, minReplicas)
          IN /\ dataPoints' = <<dp>>
             /\ readyResources' = st.ready
             /\ readyResourcesTimerList' = st.timers
             /\ calculatedMinReplicas' = st.calcMin
             /\ simulatedDataPoints' = st.sim
    /\ simPc' = "loop"
    /\ SimFrame

\* reco.go:199-232: the loop body for the next data point
SimulateStep ==
    /\ simPc = "loop"
    /\ Len(dataPoints) < MaxLen
    /\ \E v \in 0 .. MaxValue :
          LET dp == DataPoint(Len(dataPoints) * MetricStep, v)
              st == SimStep([ready |-> readyResources,
                             timers |-> readyResourcesTimerList,
                             calcMin |-> calculatedMinReplicas,
                             sim |-> simulatedDataPoints],
                            dp, acl, EffectiveTarget(targetUtilization),
                            perPodResources, maxReplicas, minReplicas)
          IN /\ dataPoints' = Append(dataPoints, dp)
             /\ readyResources' = st.ready
             /\ readyResourcesTimerList' = st.timers
             /\ calculatedMinReplicas' = st.calcMin
             /\ simulatedDataPoints' = st.sim
    /\ simPc' = "loop"
    /\ SimFrame

\* reco.go:234: the series is exhausted
SimulateReturn ==
    /\ simPc = "loop"
    /\ simPc' = "returned"
    /\ UNCHANGED <<dataPoints, readyResources, readyResourcesTimerList,
                   calculatedMinReplicas, simulatedDataPoints>>
    /\ SimFrame

SimNext ==
    \/ SimulateEmpty
    \/ SimulateInvalidTarget
    \/ SimulateFirst
    \/ SimulateStep
    \/ SimulateReturn

SpecSim == SimInit /\ [][SimNext]_vars

-----------------------------------------------------------------------------
\* findOptimalHPAConfigurations and its helpers.

\* Mutant of hasNoBreachOccurred: only the first data point is compared.
hasNoBreachOccurred_FirstOnly(original, simulated) ==
    \A i \in 1 .. Min2(1, Len(original)) :
        ~(original[i].Value * RedLineDen > simulated[i].Value)

\* reco.go:237-244: original[i].Value > simulated[i].Value is a breach.  The
\* simulated Value carries the denominator RedLineDen.
hasNoBreachOccurred(original, simulated) ==
    \A i \in 1 .. Len(original) :
        ~(original[i].Value * RedLineDen > simulated[i].Value)

\* reco.go:296-306: sum over the points of maxReplicas*perPod - Value/redLineUtil,
\* divided by maxReplicas*perPod and by len(simulated), times 100; kept as the
\* exact fraction [num, den].  (Value / redLineUtil gives back readyResources.)
RECURSIVE SumSpare(_, _)
SumSpare(simulated, capacity) ==
    IF simulated = <<>> THEN 0
    ELSE (capacity - (Head(simulated).Value \div RedLineNum))
         + SumSpare(Tail(simulated), capacity)

calculateSavings(maxR, simulated, perPod) ==
    [num |-> 100 * SumSpare(simulated, maxR * perPod),
     den |-> (maxR * perPod) * Len(simulated)]

\* a >= b and a = 0 on fractions with positive denominators
SavingsGeq(a, b) == a.num * b.den >= b.num * a.den
SavingsIsZero(a) == a.num = 0

\* reco.go:262-277: the inner loop "for low <= high".  lastSim and lastMin are
\* simulatedHPAList and calculatedMin as the previous iteration left them.
RECURSIVE InnerSearch(_, _, _, _, _, _, _, _, _)
InnerSearch(points, lag, low, hi, perPod, maxR, minR, lastSim, lastMin) ==
    IF ~(low <= hi)
    THEN [high |-> hi, sim |-> lastSim, calcMin |-> lastMin, err |-> FALSE]
    ELSE LET mid == low + (hi - low) \div 2
             r == simulateHPA(points, lag, mid, perPod, maxR, minR)
         IN IF r.err
            THEN [high |-> hi, sim |-> r.sim, calcMin |-> r.calcMin, err |-> TRUE]
            ELSE IF hasNoBreachOccurred(points, r.sim)
            THEN InnerSearch(points, lag, mid + 1, hi, perPod, maxR, minR,
                             r.sim, r.calcMin)
            ELSE InnerSearch(points, lag, low, mid - 1, perPod, maxR, minR,
                             r.sim, r.calcMin)

\* Mutant of CandidateWins: the observed minimum of the last simulation must be
\* strictly below the floor.
CandidateWins_StrictObservedMin(inner, minR, minT, maxR, perPod, best) ==
    /\ inner.high >= minT
    /\ inner.calcMin < minR
    /\ Len(inner.sim) > 0
    /\ SavingsGeq(calculateSavings(maxR, inner.sim, perPod), best)

\* reco.go:278-287: whether the candidate of floor minR replaces the best so far.
CandidateWins(inner, minR, minT, maxR, perPod, best) ==
    /\ inner.high >= minT
    /\ inner.calcMin <= minR
    /\ Len(inner.sim) > 0
    /\ SavingsGeq(calculateSavings(maxR, inner.sim, perPod), best)

\* reco.go:257-288: one iteration of the outer loop on the search state
\* [optimalTargetThreshold, optimalMin, savings].
OuterStep(st, points, lag, minT, maxT, perPod, maxR, minR) ==
    LET inner == InnerSearch(points, lag, minT, maxT, perPod, maxR, minR, <<>>, 0)
    IN IF ~inner.err /\ CandidateWins(inner, minR, minT, maxR, perPod, st.savings)
       THEN [optimalTargetThreshold |-> inner.high,
             optimalMin |-> minR,
             savings |-> calculateSavings(maxR, inner.sim, perPod),
             err |-> FALSE, at |-> minR]
       ELSE [st EXCEPT !.err = inner.err, !.at = minR]

RECURSIVE OuterLoop(_, _, _, _, _, _, _, _)
OuterLoop(st, points, lag, minT, maxT, perPod, maxR, minR) ==
    IF st.err \/ ~(minR <= maxR) THEN st
    ELSE OuterLoop(OuterStep(st, points, lag, minT, maxT, perPod, maxR, minR),
                   points, lag, minT, maxT, perPod, maxR, minR + 1)

\* reco.go:290-293: the terminal test
SearchOutcome(optTarget, optMin, best, minT, maxR) ==
    IF optTarget < minT \/ SavingsIsZero(best)
    THEN [target |-> 0, min |-> 0, max |-> 0, err |-> "unableToRecommend"]
    ELSE [target |-> optTarget, min |-> optMin, max |-> maxR, err |-> "nil"]

\* reco.go:246-294: (int, int, int, error) as [target, min, max, err]
findOptimalHPAConfigurations(points, lag, minT, maxT, perPod, maxR) ==
    LET st == OuterLoop([optimalTargetThreshold |-> 0, optimalMin |-> 0,
                         savings |-> ZeroSavings, err |-> FALSE, at |-> 0],
                        points, lag, minT, maxT, perPod, maxR, 1)
    IN IF st.err
       THEN [target |-> -1, min |-> st.at, max |-> maxR, err |-> "simulate"]
       ELSE SearchOutcome(st.optimalTargetThreshold, st.optimalMin, st.savings,
                          minT, maxR)

-----------------------------------------------------------------------------
\* The search as a state machine: one action per iteration of the outer loop.

SeriesOfLen(n) ==
    { [i \in 1 .. n |-> DataPoint((i - 1) * MetricStep, f[i])] :
        f \in [1 .. n -> 0 .. MaxValue] }

AllSeries(maxLen) == UNION { SeriesOfLen(n) : n \in 0 .. maxLen }

TargetRanges == { <<MinTarget, MaxTarget>>, <<HighTarget, HighTarget + 1>> }

SimIdle ==
    /\ targetUtilization = 0
    /\ readyResources = 0
    /\ readyResourcesTimerList = <<>>
    /\ calculatedMinReplicas = 0
    /\ simulatedDataPoints = <<>>
    /\ simPc = "idle"

SearchInit ==
    /\ dataPoints \in AllSeries(SearchMaxLen)
    /\ acl \in 0 .. MaxAcl
    /\ perPodResources = PerPod
    /\ maxReplicas \in 0 .. MaxReplicasBound
    /\ \E r \in TargetRanges : minTarget = r[1] /\ maxTarget = r[2]
    /\ minReplicas = 1
    /\ optimalTargetThreshold = 0
    /\ optimalMin = 0
    /\ savings = ZeroSavings
    /\ high = 0
    /\ simulatedHPAList = <<>>
    /\ calculatedMin = 0
    /\ searchPc = "loop"
    /\ searchResult = NoResult
    /\ SimIdle
    /\ WfIdle
    /\ RecoIdle
    /\ AuxIdle

SearchFrame ==
    UNCHANGED <<dataPoints, acl, perPodResources, maxReplicas, minTarget, maxTarget,
                targetUtilization, readyResources, readyResourcesTimerList,
                calculatedMinReplicas, simulatedDataPoints, simPc, wfVars, recoVars, auxVars>>

\* reco.go:257-288: the body of the outer loop for the floor minReplicas
SearchFloor ==
    /\ searchPc = "loop"
    /\ minReplicas <= maxReplicas
    /\ LET inner == InnerSearch(dataPoints, acl, minTarget, maxTarget,
                                perPodResources, maxReplicas, minReplicas, <<>>, 0)
           st == OuterStep([optimalTargetThreshold |-> optimalTargetThreshold,
                            optimalMin |-> optimalMin, savings |-> savings,
                            err |-> FALSE, at |-> 0],
                           dataPoints, acl, minTarget, maxTarget,
                           perPodResources, maxReplicas, minReplicas)
       IN /\ ~inner.err
          /\ high' = inner.high
          /\ simulatedHPAList' = inner.sim
          /\ calculatedMin' = inner.calcMin
          /\ optimalTargetThreshold' = st.optimalTargetThreshold
          /\ optimalMin' = st.optimalMin
          /\ savings' = st.savings
    /\ minReplicas' = minReplicas + 1
    /\ UNCHANGED <<searchPc, searchResult>>
    /\ SearchFrame

\* reco.go:267-270: simulateHPA fails inside the inner loop
SearchSimulateError ==
    /\ searchPc = "loop"
    /\ minReplicas <= maxReplicas
    /\ LET inner == InnerSearch(dataPoints, acl, minTarget, maxTarget,
                                perPodResources, maxReplicas, minReplicas, <<>>, 0)
       IN /\ inner.err
          /\ high' = inner.high
          /\ simulatedHPAList' = inner.sim
          /\ calculatedMin' = inner.calcMin
    /\ searchResult' = [target |-> -1, min |-> minReplicas, max |-> maxReplicas,
                        err |-> "simulate"]
    /\ searchPc' = "returned"
    /\ UNCHANGED <<minReplicas, optimalTargetThreshold, optimalMin, savings>>
    /\ SearchFrame

\* reco.go:290-293: the loop is over
SearchReturn ==
    /\ searchPc = "loop"
    /\ ~(minReplicas <= maxReplicas)
    /\ searchResult' = SearchOutcome(optimalTargetThreshold, optimalMin, savings,
                                     minTarget, maxReplicas)
    /\ searchPc' = "returned"
    /\ UNCHANGED <<minReplicas, optimalTargetThreshold, optimalMin, savings, high,
                   simulatedHPAList, calculatedMin>>
    /\ SearchFrame

SearchNext ==
    \/ SearchFloor
    \/ SearchSimulateError
    \/ SearchReturn

SpecSearch == SearchInit /\ [][SearchNext]_vars

-----------------------------------------------------------------------------
\* The search on constant series: the same actions as SpecSearch, started on a
\* series of equal values.

\* n points of value v
FlatSeries(n, v) == [i \in 1 .. n |-> DataPoint((i - 1) * MetricStep, v)]

\* 60 points of value 2 with perPodResources 1, maxReplicas 10, acl 0 and the
\* target range [10, 60]
FlatDemand ==
    /\ dataPoints = FlatSeries(60, 2)
    /\ acl = 0
    /\ perPodResources = 1
    /\ maxReplicas = 10
    /\ minTarget = 10
    /\ maxTarget = 60

FlatInit ==
    /\ \/ FlatDemand
       \/ /\ \E n \in 1 .. SearchMaxLen, v \in 0 .. MaxValue :
                 dataPoints = FlatSeries(n, v)
          /\ acl \in 0 .. MaxAcl
          /\ perPodResources = PerPod
          /\ maxReplicas \in 0 .. MaxReplicasBound
          /\ \E r \in TargetRanges : minTarget = r[1] /\ maxTarget = r[2]
    /\ minReplicas = 1
    /\ optimalTargetThreshold = 0
    /\ optimalMin = 0
    /\ savings = ZeroSavings
    /\ high = 0
    /\ simulatedHPAList = <<>>
    /\ calculatedMin = 0
    /\ searchPc = "loop"
    /\ searchResult = NoResult
    /\ SimIdle
    /\ WfIdle
    /\ RecoIdle
    /\ AuxIdle

SpecFlat == FlatInit /\ [][SearchNext]_vars

-----------------------------------------------------------------------------
\* The search on series with a surge: the same actions as SpecSearch, started
\* on four-point series whose values let a pending upscale outlive a downscale.

SurgeInit ==
    /\ \E f \in [1 .. 4 -> {6, 7, 12, 20}] :
          dataPoints = [i \in 1 .. 4 |-> DataPoint((i - 1) * MetricStep, f[i])]
    /\ acl \in 0 .. MaxAcl
    /\ perPodResources = 8
    /\ maxReplicas = 5
    /\ \E r \in {<<34, 35>>, <<HighTarget, HighTarget + 1>>} :
          minTarget = r[1] /\ maxTarget = r[2]
    /\ minReplicas = 1
    /\ optimalTargetThreshold = 0
    /\ optimalMin = 0
    /\ savings = ZeroSavings
    /\ high = 0
    /\ simulatedHPAList = <<>>
    /\ calculatedMin = 0
    /\ searchPc = "loop"
    /\ searchResult = NoResult
    /\ SimIdle
    /\ WfIdle
    /\ RecoIdle
    /\ AuxIdle

SpecSurge == SurgeInit /\ [][SearchNext]_vars

-----------------------------------------------------------------------------
\* The search with one resource unit per pod and a target range that ends at
\* the highest valid target (effective target 100): the same actions as
\* SpecSearch, on inputs where neighbouring targets ask for different replicas.

EdgeInit ==
    /\ dataPoints \in AllSeries(SearchMaxLen)
    /\ acl \in 0 .. MaxAcl
    /\ perPodResources = 1
    /\ maxReplicas \in 0 .. MaxReplicasBound
    /\ \E r \in {<<88, 91>>, <<HighTarget, HighTarget + 1>>} :
          minTarget = r[1] /\ maxTarget = r[2]
    /\ minReplicas = 1
    /\ optimalTargetThreshold = 0
    /\ optimalMin = 0
    /\ savings = ZeroSavings
    /\ high = 0
    /\ simulatedHPAList = <<>>
    /\ calculatedMin = 0
    /\ searchPc = "loop"
    /\ searchResult = NoResult
    /\ SimIdle
    /\ WfIdle
    /\ RecoIdle
    /\ AuxIdle

SpecEdge == EdgeInit /\ [][SearchNext]_vars

-----------------------------------------------------------------------------
\* The recommendation workflow (workflow.go) and the Policy type
\* (policyiterators.go).

\* A Go string as the sequence of its bytes; "10" is <<49, 48>>.
\* Go's <= on strings compares them byte by byte, a proper prefix being smaller.
RECURSIVE StringLeq(_, _)
StringLeq(a, b) ==
    IF a = <<>> THEN TRUE
    ELSE IF b = <<>> THEN FALSE
    ELSE IF Head(a) # Head(b) THEN Head(a) < Head(b)
    ELSE StringLeq(Tail(a), Tail(b))

\* v1alpha1.HPAConfiguration
HPAConfiguration(min, max, target) ==
    [Min |-> min, Max |-> max, TargetMetricValue |-> target]

\* v1alpha1.Policy: the custom resource the policy store keeps
PolicyCR(name, riskIndex, cut, target) ==
    [Name |-> name,
     Spec |-> [RiskIndex |-> riskIndex, MinReplicaPercentageCut |-> cut,
               TargetUtilization |-> target]]

\* var closestSafePolicy v1alpha1.Policy: the zero value
ZeroPolicyCR == PolicyCR("", <<>>, 0, 0)

\* policyiterators.go:100-107
PolicyFromCR(policy) ==
    [Name |-> policy.Name,
     RiskIndex |-> policy.Spec.RiskIndex,
     MinReplicaPercentageCut |-> policy.Spec.MinReplicaPercentageCut,
     TargetUtilization |-> policy.Spec.TargetUtilization]

\* Mutant of transformTargetRecoConfig: the test maxReplicas >= minRequiredReplicas is lost.
transformTargetRecoConfig_NoCapTest(config, minRequired) ==
    IF config = Nil THEN Nil
    ELSE HPAConfiguration(IF config.Min < minRequired THEN minRequired ELSE config.Min,
                          config.Max, config.TargetMetricValue)

\* workflow.go:219-229
transformTargetRecoConfig(config, minRequired) ==
    IF config = Nil THEN Nil
    ELSE LET maxR == config.Max
             minR == IF maxR >= minRequired /\ config.Min < minRequired
                     THEN minRequired ELSE config.Min
         IN HPAConfiguration(minR, maxR, config.TargetMetricValue)

\* workflow.go:202-217
pickSafestPolicy(p1, p2) ==
    IF p1 = Nil /\ p2 # Nil THEN p2
    ELSE IF p2 = Nil /\ p1 # Nil THEN p1
    ELSE IF p1 = Nil /\ p2 = Nil THEN Nil
    ELSE IF StringLeq(p1.RiskIndex, p2.RiskIndex) THEN p1 ELSE p2

\* Mutant of shouldApplyReco: the comparison of the targets is reversed.
shouldApplyReco_Reversed(config, policy) ==
    IF policy = Nil THEN TRUE
    ELSE IF config = Nil THEN FALSE
    ELSE IF policy.MinReplicaPercentageCut = 100
            /\ config.TargetMetricValue > policy.TargetUtilization
    THEN TRUE
    ELSE FALSE

\* Mutant of shouldApplyReco: the test MinReplicaPercentageCut == 100 is lost.
shouldApplyReco_NoCutTest(config, policy) ==
    IF policy = Nil THEN TRUE
    ELSE IF config = Nil THEN FALSE
    ELSE config.TargetMetricValue < policy.TargetUtilization

\* workflow.go:186-200
shouldApplyReco(config, policy) ==
    IF policy = Nil THEN TRUE
    ELSE IF config = Nil THEN FALSE
    ELSE IF policy.MinReplicaPercentageCut = 100
            /\ config.TargetMetricValue < policy.TargetUtilization
    THEN TRUE
    ELSE FALSE

\* Go's integer division truncates toward zero.
GoDiv(a, b) == IF a >= 0 THEN a \div b ELSE -((-a) \div b)

\* Mutant of createRecoConfigFromPolicy: the cut is taken of the cap, not of
\* the range between the floor and the cap.
createRecoConfigFromPolicy_CutOfMax(policy, recoConfig) ==
    IF policy = Nil \/ recoConfig = Nil
    THEN [config |-> Nil, err |-> "Policy or reco config supplied is nil"]
    ELSE [config |->
            HPAConfiguration(
                recoConfig.Max
                  - GoDiv(policy.MinReplicaPercentageCut * recoConfig.Max, 100),
                recoConfig.Max,
                policy.TargetUtilization),
          err |-> "nil"]

\* Mutant of createRecoConfigFromPolicy: the cut is taken as the share of the
\* range that is kept, not the share that is removed.
createRecoConfigFromPolicy_KeepShare(policy, recoConfig) ==
    IF policy = Nil \/ recoConfig = Nil
    THEN [config |-> Nil, err |-> "Policy or reco config supplied is nil"]
    ELSE [config |->
            HPAConfiguration(
                recoConfig.Min
                  + GoDiv(policy.MinReplicaPercentageCut
                            * (recoConfig.Max - recoConfig.Min), 100),
                recoConfig.Max,
                policy.TargetUtilization),
          err |-> "nil"]

\* workflow.go:174-183: (*HPAConfiguration, error) as [config, err].
\* cut*(Max-Min)/100 is an int division; float64 and math.Ceil of its result
\* give the same integer back.
createRecoConfigFromPolicy(policy, recoConfig) ==
    IF policy = Nil \/ recoConfig = Nil
    THEN [config |-> Nil, err |-> "Policy or reco config supplied is nil"]
    ELSE [config |->
            HPAConfiguration(
                recoConfig.Max
                  - GoDiv(policy.MinReplicaPercentageCut
                            * (recoConfig.Max - recoConfig.Min), 100),
                recoConfig.Max,
                policy.TargetUtilization),
          err |-> "nil"]

\* workflow.go:234-238: the loop over policies.Items, from the zero value
RECURSIVE ClosestSafeCR(_, _, _)
ClosestSafeCR(config, items, closest) ==
    IF items = <<>> THEN closest
    ELSE LET pc == Head(items)
         IN ClosestSafeCR(config, Tail(items),
                IF pc.Spec.MinReplicaPercentageCut = 100
                   /\ pc.Spec.TargetUtilization <= config.TargetMetricValue
                THEN pc ELSE closest)

\* workflow.go:231-240
findClosestSafePolicy(config, policies) ==
    PolicyFromCR(ClosestSafeCR(config, policies, ZeroPolicyCR))

\* workflow.go:235: config.TargetMetricValue is read through a nil pointer as
\* soon as an item has MinReplicaPercentageCut = 100.
findClosestSafePolicyPanics(config, policies) ==
    /\ config = Nil
    /\ \E i \in 1 .. Len(policies) : policies[i].Spec.MinReplicaPercentageCut = 100

\* workflow.go:161-172: (*HPAConfiguration, *Policy) as [config, policy];
\* panic is TRUE when the call does not return.
generateNextRecoConfig(config, policy, store) ==
    IF shouldApplyReco(config, policy)
    THEN IF store.err # "nil"
         THEN [config |-> config, policy |-> Nil, panic |-> FALSE]
         ELSE IF findClosestSafePolicyPanics(config, store.policies)
         THEN [config |-> Nil, policy |-> Nil, panic |-> TRUE]
         ELSE [config |-> config,
               policy |-> findClosestSafePolicy(config, store.policies),
               panic |-> FALSE]
    ELSE [config |-> createRecoConfigFromPolicy(policy, config).config,
          policy |-> policy, panic |-> FALSE]

-----------------------------------------------------------------------------
\* Inputs of the workflow.

\* "1" < "10" < "2" < "3" as Go strings
Risk1 == <<49>>
Risk10 == <<49, 48>>
Risk2 == <<50>>
Risk3 == <<51>>

\* What GetSortedPolicies returns: the catalog in ascending RiskIndex.  Nothing
\* in the code keeps two policies from carrying the same RiskIndex.
PolicyCatalog ==
    << PolicyCR("p-safest", Risk1, 100, 30),
       PolicyCR("p-ten", Risk10, 100, 40),
       PolicyCR("p-half", Risk2, 50, 30),
       PolicyCR("p-full", Risk2, 100, 50),
       PolicyCR("p-none", Risk3, 0, 60) >>

CatalogPolicies == { PolicyFromCR(PolicyCatalog[i]) : i \in 1 .. Len(PolicyCatalog) }

IteratorNames == {"default", "aging"}

IteratorError(i) == IF i = "default" THEN "default: NextPolicy failed"
                    ELSE "aging: NextPolicy failed"

RecoTargets == {25, 40}

RecommenderOutcomes ==
    {[config |-> Nil, err |-> "Recommend failed"], [config |-> Nil, err |-> "nil"]}
    \cup { [config |-> HPAConfiguration(mn, mx, t), err |-> "nil"] :
             mn \in 0 .. MaxCfgMin, mx \in 0 .. MaxCfgMax, t \in RecoTargets }

IteratorOutcomes(i) ==
    {[policy |-> Nil, err |-> IteratorError(i)], [policy |-> Nil, err |-> "nil"]}
    \cup { [policy |-> p, err |-> "nil"] : p \in CatalogPolicies }

StoreOutcomes ==
    {[policies |-> <<>>, err |-> "GetSortedPolicies failed"],
     [policies |-> PolicyCatalog, err |-> "nil"]}

NoRecommenderOutcome == [config |-> Nil, err |-> "nil"]

WfInit ==
    /\ recommender \in {"nil", "set"}
    /\ ctxCancelled = FALSE
    /\ calledWhileCancelled = FALSE
    /\ storeRead = FALSE
    /\ recommenderOut \in IF recommender = "nil" THEN {NoRecommenderOutcome}
                          ELSE RecommenderOutcomes
    /\ iteratorOut \in { f \in [IteratorNames -> UNION {IteratorOutcomes(i) : i \in IteratorNames}] :
                           \A i \in IteratorNames : f[i] \in IteratorOutcomes(i) }
    /\ policyStoreOut \in StoreOutcomes
    /\ minRequiredReplicas \in 1 .. MaxMinRequired
    /\ targetRecoConfig = Nil
    /\ nextPolicy = Nil
    /\ pendingIterators = IteratorNames
    /\ wfPc = "recommend"
    /\ execResult = NoExecResult
    /\ dataPoints = <<>>
    /\ acl = 0
    /\ perPodResources = PerPod
    /\ maxReplicas = 0
    /\ minReplicas = 0
    /\ SimIdle
    /\ SearchIdle
    /\ RecoIdle
    /\ AuxIdle

WfFrame ==
    UNCHANGED <<recommender, ctxCancelled, recommenderOut, iteratorOut, policyStoreOut, minRequiredReplicas,
                simVars, searchVars, recoVars, auxVars>>

ErrorResult(e) == [nextConfig |-> Nil, targetRecoConfig |-> Nil, policy |-> Nil, err |-> e]

\* A collaborator is handed ctx (workflow.go:127, 140) or called without it
\* (workflow.go:163); nothing in Execute reads ctx.Done() or ctx.Err().
CollaboratorCall ==
    calledWhileCancelled' = (calledWhileCancelled \/ ctxCancelled)

\* Mutant of ExecNoRecommender: the nil test is missing and Execute goes on to
\* the policy iterators with a nil recommendation.
ExecNoRecommender_GoesOn ==
    /\ wfPc = "recommend"
    /\ recommender = "nil"
    /\ wfPc' = "iterate"
    /\ UNCHANGED <<targetRecoConfig, nextPolicy, pendingIterators, calledWhileCancelled,
                   storeRead, execResult>>
    /\ WfFrame

\* workflow.go:122-124: no recommender configured
ExecNoRecommender ==
    /\ wfPc = "recommend"
    /\ recommender = "nil"
    /\ execResult' = ErrorResult("No recommenders configured in the workflow.")
    /\ wfPc' = "done"
    /\ UNCHANGED <<targetRecoConfig, nextPolicy, pendingIterators, calledWhileCancelled,
                   storeRead>>
    /\ WfFrame

\* workflow.go:127-133: the recommender fails
ExecRecommendError ==
    /\ wfPc = "recommend"
    /\ recommender # "nil"
    /\ recommenderOut.err # "nil"
    /\ CollaboratorCall
    /\ UNCHANGED storeRead
    /\ execResult' = ErrorResult(recommenderOut.err)
    /\ wfPc' = "done"
    /\ UNCHANGED <<targetRecoConfig, nextPolicy, pendingIterators>>
    /\ WfFrame

\* workflow.go:127-137: the recommendation and its post-filter
ExecRecommend ==
    /\ wfPc = "recommend"
    /\ recommender # "nil"
    /\ recommenderOut.err = "nil"
    /\ CollaboratorCall
    /\ UNCHANGED storeRead
    /\ targetRecoConfig' = transformTargetRecoConfig(recommenderOut.config,
                                                     minRequiredReplicas)
    /\ wfPc' = "iterate"
    /\ UNCHANGED <<nextPolicy, pendingIterators, execResult>>
    /\ WfFrame

\* workflow.go:138-144: an iterator of the map, in whatever order range yields, fails
ExecIteratorError ==
    /\ wfPc = "iterate"
    /\ CollaboratorCall
    /\ UNCHANGED storeRead
    /\ \E i \in pendingIterators :
          /\ iteratorOut[i].err # "nil"
          /\ execResult' = ErrorResult(iteratorOut[i].err)
          /\ pendingIterators' = pendingIterators \ {i}
    /\ wfPc' = "done"
    /\ UNCHANGED <<targetRecoConfig, nextPolicy>>
    /\ WfFrame

\* workflow.go:138-155: an iterator answers; a nil policy is skipped
ExecIterator ==
    /\ wfPc = "iterate"
    /\ CollaboratorCall
    /\ UNCHANGED storeRead
    /\ \E i \in pendingIterators :
          /\ iteratorOut[i].err = "nil"
          /\ nextPolicy' = IF iteratorOut[i].policy = Nil THEN nextPolicy
                           ELSE pickSafestPolicy(nextPolicy, iteratorOut[i].policy)
          /\ pendingIterators' = pendingIterators \ {i}
    /\ UNCHANGED <<targetRecoConfig, wfPc, execResult>>
    /\ WfFrame

\* workflow.go:157-158
ExecGenerate ==
    /\ wfPc = "iterate"
    /\ pendingIterators = {}
    /\ storeRead' = shouldApplyReco(targetRecoConfig, nextPolicy)
    /\ calledWhileCancelled' = (calledWhileCancelled \/ (ctxCancelled /\ storeRead'))
    /\ LET g == generateNextRecoConfig(targetRecoConfig, nextPolicy, policyStoreOut)
       IN /\ ~g.panic
          /\ execResult' = [nextConfig |-> g.config,
                            targetRecoConfig |-> targetRecoConfig,
                            policy |-> g.policy, err |-> "nil"]
    /\ wfPc' = "done"
    /\ UNCHANGED <<targetRecoConfig, nextPolicy, pendingIterators>>
    /\ WfFrame

\* workflow.go:157, 235: generateNextRecoConfig dereferences the nil recommendation
ExecPanic ==
    /\ wfPc = "iterate"
    /\ pendingIterators = {}
    /\ generateNextRecoConfig(targetRecoConfig, nextPolicy, policyStoreOut).panic
    /\ storeRead' = TRUE
    /\ CollaboratorCall
    /\ execResult' = ErrorResult("panic")
    /\ wfPc' = "panicked"
    /\ UNCHANGED <<targetRecoConfig, nextPolicy, pendingIterators>>
    /\ WfFrame

\* The caller cancels ctx while Execute runs.
CancelContext ==
    /\ wfPc \in {"recommend", "iterate"}
    /\ ~ctxCancelled
    /\ ctxCancelled' = TRUE
    /\ UNCHANGED <<recommender, calledWhileCancelled, storeRead, recommenderOut,
                   iteratorOut, policyStoreOut, minRequiredReplicas, targetRecoConfig,
                   nextPolicy, pendingIterators, wfPc, execResult,
                   simVars, searchVars, recoVars, auxVars>>

WfNext ==
    \/ ExecNoRecommender
    \/ ExecRecommendError
    \/ ExecRecommend
    \/ ExecIteratorError
    \/ ExecIterator
    \/ ExecGenerate
    \/ ExecPanic

SpecWf == WfInit /\ [][WfNext]_vars

\* Execute under a caller that may cancel ctx at any point of the run.
WfCtxNext ==
    \/ WfNext
    \/ CancelContext

SpecWfCtx == WfInit /\ [][WfCtxNext]_vars

\* Execute as a function of the order in which range visits the iterators.
RECURSIVE FoldIterators(_, _, _)
FoldIterators(order, outs, acc) ==
    IF order = <<>> THEN [policy |-> acc, err |-> "nil"]
    ELSE LET o == outs[Head(order)]
         IN IF o.err # "nil" THEN [policy |-> Nil, err |-> o.err]
            ELSE FoldIterators(Tail(order), outs,
                    IF o.policy = Nil THEN acc ELSE pickSafestPolicy(acc, o.policy))

Execute(rec, reco, order, outs, store, minRequired) ==
    IF rec = "nil" THEN ErrorResult("No recommenders configured in the workflow.")
    ELSE IF reco.err # "nil" THEN ErrorResult(reco.err)
    ELSE LET target == transformTargetRecoConfig(reco.config, minRequired)
             merged == FoldIterators(order, outs, Nil)
         IN IF merged.err # "nil" THEN ErrorResult(merged.err)
            ELSE LET g == generateNextRecoConfig(target, merged.policy, store)
                 IN IF g.panic THEN ErrorResult("panic")
                    ELSE [nextConfig |-> g.config, targetRecoConfig |-> target,
                          policy |-> g.policy, err |-> "nil"]

IterationOrders ==
    { o \in [1 .. Cardinality(IteratorNames) -> IteratorNames] :
        \A i, j \in 1 .. Cardinality(IteratorNames) : i # j => o[i] # o[j] }

-----------------------------------------------------------------------------
\* CpuUtilizationBasedRecommender.Recommend: one action per collaborator call
\* and per decision in between.

\* Mutant of isMetricsAboveThreshold: a series exactly at the threshold is refused.
isMetricsAboveThreshold_Strict(points, window, step, threshold) ==
    LET totalDataPoints == window \div step
        percentageOfDataPointsFetched == (Len(points) * 100) \div totalDataPoints
    IN ~(percentageOfDataPointsFetched <= threshold)

\* reco.go:349-356.  int(window.Seconds()) / int(step.Seconds()) is an int
\* division; int(float64(len)/float64(total)*100) truncates, and for the
\* series lengths and totals of this model the float product is the exact one.
isMetricsAboveThreshold(points, window, step, threshold) ==
    LET totalDataPoints == window \div step
        percentageOfDataPointsFetched == (Len(points) * 100) \div totalDataPoints
    IN ~(percentageOfDataPointsFetched < threshold)

\* reco.go:117, 150: the no-op configuration
NoOpConfiguration(workloadMaxReplicas, minT) ==
    HPAConfiguration(workloadMaxReplicas, workloadMaxReplicas, minT)

\* A MetricsTransformer may trim the series; the two outcomes of a successful
\* Transform kept here are the series unchanged and the series without its last point.
TransformOutcomes(points) ==
    {points} \cup (IF points = <<>> THEN {} ELSE {SubSeq(points, 1, Len(points) - 1)})

MetricWindows == {3, 5}
MetricSteps == {1, 2}
Thresholds == {50, 100}

RecoInit ==
    /\ metricWindow \in MetricWindows
    /\ metricStep \in MetricSteps
    /\ metricsPercentageThreshold \in Thresholds
    /\ metricsTransformer \in 0 .. MaxTransformers
    /\ \E r \in TargetRanges : minTarget = r[1] /\ maxTarget = r[2]
    /\ transformed = 0
    /\ scraped = <<>>
    /\ calls = <<>>
    /\ recoPc = "scrape"
    /\ recoResult = NoRecoResult
    /\ dataPoints = <<>>
    /\ acl = 0
    /\ perPodResources = 0
    /\ maxReplicas = 0
    /\ minReplicas = 0
    /\ SimIdle
    /\ optimalTargetThreshold = 0
    /\ optimalMin = 0
    /\ savings = ZeroSavings
    /\ high = 0
    /\ simulatedHPAList = <<>>
    /\ calculatedMin = 0
    /\ searchPc = "idle"
    /\ searchResult = NoResult
    /\ WfIdle
    /\ AuxIdle

RecoConfigFrame ==
    UNCHANGED <<metricWindow, metricStep, metricsPercentageThreshold, metricsTransformer,
                minTarget, maxTarget, targetUtilization, minReplicas, readyResources,
                readyResourcesTimerList, calculatedMinReplicas, simulatedDataPoints,
                simPc, optimalTargetThreshold, optimalMin, savings, high,
                simulatedHPAList, calculatedMin, searchPc, wfVars, auxVars>>

RecoReturn(config, err) ==
    /\ recoResult' = [config |-> config, err |-> err]
    /\ recoPc' = "returned"

\* reco.go:95-103: the scraper fails
RecommendScrapeError ==
    /\ recoPc = "scrape"
    /\ calls' = Append(calls, "GetAverageCPUUtilizationByWorkload")
    /\ RecoReturn(Nil, "GetAverageCPUUtilizationByWorkload failed")
    /\ UNCHANGED <<dataPoints, scraped, acl, perPodResources, maxReplicas, transformed,
                   searchResult>>
    /\ RecoConfigFrame

\* reco.go:95-105: the scraper returns a series
RecommendScrape ==
    /\ recoPc = "scrape"
    /\ calls' = Append(calls, "GetAverageCPUUtilizationByWorkload")
    /\ \E series \in AllSeries(RecoMaxLen) :
          /\ dataPoints' = series
          /\ scraped' = series
    /\ recoPc' = "getMaxPods"
    /\ UNCHANGED <<acl, perPodResources, maxReplicas, transformed, searchResult,
                   recoResult>>
    /\ RecoConfigFrame

\* reco.go:107-111: getMaxPods fails
RecommendGetMaxPodsError ==
    /\ recoPc = "getMaxPods"
    /\ calls' = Append(calls, "getMaxPods")
    /\ RecoReturn(Nil, "getMaxPods failed")
    /\ UNCHANGED <<dataPoints, scraped, acl, perPodResources, maxReplicas, transformed,
                   searchResult>>
    /\ RecoConfigFrame

\* reco.go:107: getMaxPods answers workloadMaxReplicas
RecommendGetMaxPods ==
    /\ recoPc = "getMaxPods"
    /\ calls' = Append(calls, "getMaxPods")
    /\ maxReplicas' \in 0 .. MaxReplicasBound
    /\ recoPc' = "gate"
    /\ UNCHANGED <<dataPoints, scraped, acl, perPodResources, transformed, searchResult,
                   recoResult>>
    /\ RecoConfigFrame

\* reco.go:113-118: too few data points: the no-op configuration, nil error
RecommendInsufficientData ==
    /\ recoPc = "gate"
    /\ ~isMetricsAboveThreshold(dataPoints, metricWindow, metricStep,
                                metricsPercentageThreshold)
    /\ RecoReturn(NoOpConfiguration(maxReplicas, minTarget), "nil")
    /\ UNCHANGED <<dataPoints, scraped, acl, perPodResources, maxReplicas, transformed,
                   searchResult, calls>>
    /\ RecoConfigFrame

\* reco.go:113-121: enough data points
RecommendSufficientData ==
    /\ recoPc = "gate"
    /\ isMetricsAboveThreshold(dataPoints, metricWindow, metricStep,
                               metricsPercentageThreshold)
    /\ recoPc' = IF metricsTransformer > 0 THEN "transform" ELSE "getACL"
    /\ UNCHANGED <<dataPoints, scraped, acl, perPodResources, maxReplicas, transformed,
                   searchResult, calls, recoResult>>
    /\ RecoConfigFrame

\* Mutant of RecommendTransformError: a transformer failure is answered like
\* missing data, with the no-op configuration and a nil error.
RecommendTransformError_NoOp ==
    /\ recoPc = "transform"
    /\ calls' = Append(calls, "Transform")
    /\ RecoReturn(NoOpConfiguration(maxReplicas, minTarget), "nil")
    /\ UNCHANGED <<dataPoints, scraped, acl, perPodResources, maxReplicas, transformed,
                   searchResult>>
    /\ RecoConfigFrame

\* reco.go:122-127: the next transformer fails
RecommendTransformError ==
    /\ recoPc = "transform"
    /\ calls' = Append(calls, "Transform")
    /\ RecoReturn(Nil, "Transform failed")
    /\ UNCHANGED <<dataPoints, scraped, acl, perPodResources, maxReplicas, transformed,
                   searchResult>>
    /\ RecoConfigFrame

\* reco.go:122-128: the next transformer rewrites the series
RecommendTransform ==
    /\ recoPc = "transform"
    /\ calls' = Append(calls, "Transform")
    /\ dataPoints' \in TransformOutcomes(dataPoints)
    /\ transformed' = transformed + 1
    /\ recoPc' = IF transformed + 1 < metricsTransformer THEN "transform" ELSE "getACL"
    /\ UNCHANGED <<scraped, acl, perPodResources, maxReplicas, searchResult, recoResult>>
    /\ RecoConfigFrame

\* reco.go:131-135: the cycle-lag fetch fails
RecommendGetACLError ==
    /\ recoPc = "getACL"
    /\ calls' = Append(calls, "GetACLByWorkload")
    /\ RecoReturn(Nil, "GetACLByWorkload failed")
    /\ UNCHANGED <<dataPoints, scraped, acl, perPodResources, maxReplicas, transformed,
                   searchResult>>
    /\ RecoConfigFrame

\* reco.go:131
RecommendGetACL ==
    /\ recoPc = "getACL"
    /\ calls' = Append(calls, "GetACLByWorkload")
    /\ acl' \in 0 .. MaxAcl
    /\ recoPc' = "getLimits"
    /\ UNCHANGED <<dataPoints, scraped, perPodResources, maxReplicas, transformed,
                   searchResult, recoResult>>
    /\ RecoConfigFrame

\* reco.go:137-141: the resource-limit fetch fails
RecommendGetLimitsError ==
    /\ recoPc = "getLimits"
    /\ calls' = Append(calls, "getContainerCPULimitsSum")
    /\ RecoReturn(Nil, "getContainerCPULimitsSum failed")
    /\ UNCHANGED <<dataPoints, scraped, acl, perPodResources, maxReplicas, transformed,
                   searchResult>>
    /\ RecoConfigFrame

\* reco.go:137
RecommendGetLimits ==
    /\ recoPc = "getLimits"
    /\ calls' = Append(calls, "getContainerCPULimitsSum")
    /\ perPodResources' = PerPod
    /\ recoPc' = "search"
    /\ UNCHANGED <<dataPoints, scraped, acl, maxReplicas, transformed, searchResult,
                   recoResult>>
    /\ RecoConfigFrame

\* Mutant of RecommendResult: unableToRecommendError is returned like any other error.
RecommendResult_SurfaceUnable(found, workloadMaxReplicas, minT) ==
    IF found.err = "nil"
    THEN [config |-> HPAConfiguration(found.min, found.max, found.target), err |-> "nil"]
    ELSE [config |-> Nil, err |-> found.err]

\* reco.go:143-157: the search and what Recommend makes of its result
RecommendResult(found, workloadMaxReplicas, minT) ==
    IF found.err = "nil"
    THEN [config |-> HPAConfiguration(found.min, found.max, found.target), err |-> "nil"]
    ELSE IF found.err = "unableToRecommend"
    THEN [config |-> NoOpConfiguration(workloadMaxReplicas, minT), err |-> "nil"]
    ELSE [config |-> Nil, err |-> found.err]

RecommendSearch ==
    /\ recoPc = "search"
    /\ calls' = Append(calls, "findOptimalHPAConfigurations")
    /\ LET found == findOptimalHPAConfigurations(dataPoints, acl, minTarget, maxTarget,
                                                 perPodResources, maxReplicas)
       IN /\ searchResult' = found
          /\ recoResult' = RecommendResult(found, maxReplicas, minTarget)
    /\ recoPc' = "returned"
    /\ UNCHANGED <<dataPoints, scraped, acl, perPodResources, maxReplicas, transformed>>
    /\ RecoConfigFrame

RecoNext ==
    \/ RecommendScrapeError
    \/ RecommendScrape
    \/ RecommendGetMaxPodsError
    \/ RecommendGetMaxPods
    \/ RecommendInsufficientData
    \/ RecommendSufficientData
    \/ RecommendTransformError
    \/ RecommendTransform
    \/ RecommendGetACLError
    \/ RecommendGetACL
    \/ RecommendGetLimitsError
    \/ RecommendGetLimits
    \/ RecommendSearch

SpecReco == RecoInit /\ [][RecoNext]_vars

-----------------------------------------------------------------------------
\* AgingPolicyIterator.NextPolicy.  The policy store is the catalog in ascending
\* risk: the safest policy is its first entry, the next policy after an entry is
\* the entry that follows it, and the last entry is its own successor.

PolicyIndex(name) ==
    IF \E i \in 1 .. Len(PolicyCatalog) : PolicyCatalog[i].Name = name
    THEN CHOOSE i \in 1 .. Len(PolicyCatalog) : PolicyCatalog[i].Name = name
    ELSE 0

GetSafestPolicy == PolicyCatalog[1]

GetPolicyByName(name) == PolicyCatalog[PolicyIndex(name)]

GetNextPolicyByName(name) ==
    PolicyCatalog[Min2(PolicyIndex(name) + 1, Len(PolicyCatalog))]

\* Mutant of isAgeBeyondExpiry: the instant T + age itself is not yet expired.
isAgeBeyondExpiry_StrictlyAfter(reco, age, instant) ==
    instant > reco.TransitionedAt + age

\* policyiterators.go:109-119.  policyreco is never nil at the call of line 67.
isAgeBeyondExpiry(reco, age, instant) ==
    IF reco.TransitionedAt + age > instant THEN FALSE ELSE TRUE

RecordNames == { PolicyCatalog[i].Name : i \in 1 .. Len(PolicyCatalog) } \cup {"p-gone"}

AgingInit ==
    /\ MaxPodsIdle
    /\ BuilderIdle
    /\ policyreco \in {[Policy |-> "", TransitionedAt |-> 0]}
                       \cup [Policy : RecordNames, TransitionedAt : 0 .. MaxTransitionedAt]
    /\ Age \in 1 .. MaxAge
    /\ now = 0
    /\ agingOut = NoAgingOut
    /\ agingPrev = Nil
    /\ dataPoints = <<>>
    /\ acl = 0
    /\ perPodResources = 0
    /\ maxReplicas = 0
    /\ minReplicas = 0
    /\ SimIdle
    /\ SearchIdle
    /\ WfIdle
    /\ RecoIdle

AgingFrame ==
    UNCHANGED <<policyreco, Age, simVars, searchVars, wfVars, recoVars, maxPodsVars,
                builderVars>>

AgingReturn(policy, err) ==
    /\ agingOut' = [policy |-> policy, err |-> err, at |-> now]
    /\ agingPrev' = IF agingOut.err = "nil" THEN agingOut.policy ELSE agingPrev
    /\ UNCHANGED now

\* policyiterators.go:73-81: no policy recorded for the workload
AgingNoRecord ==
    /\ policyreco.Policy = ""
    /\ \/ AgingReturn(Nil, "GetSafestPolicy failed")
       \/ AgingReturn(PolicyFromCR(GetSafestPolicy), "nil")
    /\ AgingFrame

\* policyiterators.go:83-90: the recorded policy has not expired
AgingNotExpired ==
    /\ policyreco.Policy # ""
    /\ ~isAgeBeyondExpiry(policyreco, Age, now)
    /\ \/ AgingReturn(Nil, "GetPolicyByName failed")
       \/ /\ PolicyIndex(policyreco.Policy) # 0
          /\ AgingReturn(PolicyFromCR(GetPolicyByName(policyreco.Policy)), "nil")
    /\ AgingFrame

\* policyiterators.go:92-97: the recorded policy has expired
AgingExpired ==
    /\ policyreco.Policy # ""
    /\ isAgeBeyondExpiry(policyreco, Age, now)
    /\ \/ AgingReturn(Nil, "GetNextPolicyByName failed")
       \/ /\ PolicyIndex(policyreco.Policy) # 0
          /\ AgingReturn(PolicyFromCR(GetNextPolicyByName(policyreco.Policy)), "nil")
    /\ AgingFrame

\* Time passes between two calls.
AgingTick ==
    /\ now < MaxNow
    /\ now' = now + 1
    /\ UNCHANGED <<agingOut, agingPrev>>
    /\ AgingFrame

AgingNext ==
    \/ AgingNoRecord
    \/ AgingNotExpired
    \/ AgingExpired
    \/ AgingTick

SpecAging == AgingInit /\ [][AgingNext]_vars

-----------------------------------------------------------------------------
\* CpuUtilizationBasedRecommender.getMaxPods: one action per collaborator call.

\* A nil *int32
NilCount == [set |-> FALSE, value |-> 0]

\* Mutant of ScaledObjectMaxReplicas: the first item that has the field set is taken.
ScaledObjectMaxReplicas_AnyItem(items) ==
    IF \E i \in 1 .. Len(items) : items[i].set
    THEN items[CHOOSE i \in 1 .. Len(items) :
                 items[i].set /\ \A j \in 1 .. i - 1 : ~items[j].set]
    ELSE NilCount

\* reco.go:339-341: only Items[0] is looked at
ScaledObjectMaxReplicas(items) ==
    IF Len(items) > 0 /\ items[1].set THEN items[1] ELSE NilCount

ReplicaCounts == 0 .. MaxReplicasBound

MaxReplicaCounts == {NilCount} \cup [set : {TRUE}, value : ReplicaCounts]

ScaledObjectLists ==
    UNION { [1 .. n -> MaxReplicaCounts] : n \in 0 .. MaxScaledObjects }

MaxPodsInit ==
    /\ kindKnown \in BOOLEAN
    /\ annotationOut \in {[value |-> 0, err |-> "annotation not found"]}
                          \cup [value : ReplicaCounts, err : {"nil"}]
    /\ scaledObjectsOut \in {[items |-> <<>>, err |-> "List failed"],
                             [items |-> <<>>, err |-> "NotFound"]}
                             \cup [items : ScaledObjectLists, err : {"nil"}]
    /\ replicaCountOut \in {[value |-> 0, err |-> "GetReplicaCount failed"]}
                            \cup [value : ReplicaCounts, err : {"nil"}]
    /\ maxPodsCalls = <<>>
    /\ maxPodsPc = "GetObjectClient"
    /\ maxPodsResult = NoMaxPodsResult
    /\ AgingIdle
    /\ BuilderIdle
    /\ dataPoints = <<>>
    /\ acl = 0
    /\ perPodResources = 0
    /\ maxReplicas = 0
    /\ minReplicas = 0
    /\ SimIdle
    /\ SearchIdle
    /\ WfIdle
    /\ RecoIdle

MaxPodsFrame ==
    UNCHANGED <<kindKnown, annotationOut, scaledObjectsOut, replicaCountOut,
                simVars, searchVars, wfVars, recoVars, agingVars, builderVars>>

MaxPodsReturn(value, err) ==
    /\ maxPodsResult' = [value |-> value, err |-> err]
    /\ maxPodsPc' = "returned"

\* reco.go:322-325: no client for the kind
MaxPodsUnknownKind ==
    /\ maxPodsPc = "GetObjectClient"
    /\ ~kindKnown
    /\ maxPodsCalls' = Append(maxPodsCalls, "GetObjectClient")
    /\ MaxPodsReturn(0, "unsupported objectKind")
    /\ MaxPodsFrame

\* reco.go:322
MaxPodsKnownKind ==
    /\ maxPodsPc = "GetObjectClient"
    /\ kindKnown
    /\ maxPodsCalls' = Append(maxPodsCalls, "GetObjectClient")
    /\ maxPodsPc' = "GetMaxReplicaFromAnnotation"
    /\ UNCHANGED maxPodsResult
    /\ MaxPodsFrame

\* reco.go:327-330: the annotation answers
MaxPodsAnnotation ==
    /\ maxPodsPc = "GetMaxReplicaFromAnnotation"
    /\ annotationOut.err = "nil"
    /\ maxPodsCalls' = Append(maxPodsCalls, "GetMaxReplicaFromAnnotation")
    /\ MaxPodsReturn(annotationOut.value, "nil")
    /\ MaxPodsFrame

\* reco.go:327-331: the annotation lookup fails
MaxPodsNoAnnotation ==
    /\ maxPodsPc = "GetMaxReplicaFromAnnotation"
    /\ annotationOut.err # "nil"
    /\ maxPodsCalls' = Append(maxPodsCalls, "GetMaxReplicaFromAnnotation")
    /\ maxPodsPc' = "List"
    /\ UNCHANGED maxPodsResult
    /\ MaxPodsFrame

\* reco.go:332-337: the list call fails with something else than NotFound
MaxPodsListError ==
    /\ maxPodsPc = "List"
    /\ scaledObjectsOut.err \notin {"nil", "NotFound"}
    /\ maxPodsCalls' = Append(maxPodsCalls, "List")
    /\ MaxPodsReturn(0, "unable to fetch scaledobjects")
    /\ MaxPodsFrame

\* reco.go:332-341: the first ScaledObject carries a MaxReplicaCount
MaxPodsScaledObject ==
    /\ maxPodsPc = "List"
    /\ scaledObjectsOut.err \in {"nil", "NotFound"}
    /\ ScaledObjectMaxReplicas(scaledObjectsOut.items).set
    /\ maxPodsCalls' = Append(maxPodsCalls, "List")
    /\ MaxPodsReturn(ScaledObjectMaxReplicas(scaledObjectsOut.items).value, "nil")
    /\ MaxPodsFrame

\* reco.go:332-342: no ScaledObject to take the value from
MaxPodsNoScaledObject ==
    /\ maxPodsPc = "List"
    /\ scaledObjectsOut.err \in {"nil", "NotFound"}
    /\ ~ScaledObjectMaxReplicas(scaledObjectsOut.items).set
    /\ maxPodsCalls' = Append(maxPodsCalls, "List")
    /\ maxPodsPc' = "GetReplicaCount"
    /\ UNCHANGED maxPodsResult
    /\ MaxPodsFrame

\* reco.go:342-346
MaxPodsReplicaCount ==
    /\ maxPodsPc = "GetReplicaCount"
    /\ maxPodsCalls' = Append(maxPodsCalls, "GetReplicaCount")
    /\ IF replicaCountOut.err # "nil"
       THEN MaxPodsReturn(0, replicaCountOut.err)
       ELSE MaxPodsReturn(replicaCountOut.value, "nil")
    /\ MaxPodsFrame

MaxPodsNext ==
    \/ MaxPodsUnknownKind
    \/ MaxPodsKnownKind
    \/ MaxPodsAnnotation
    \/ MaxPodsNoAnnotation
    \/ MaxPodsListError
    \/ MaxPodsScaledObject
    \/ MaxPodsNoScaledObject
    \/ MaxPodsReplicaCount

SpecMaxPods == MaxPodsInit /\ [][MaxPodsNext]_vars

-----------------------------------------------------------------------------
\* RecoWorkflowBuilder: the With... calls and Build, in any order.

Recommenders == {"r1", "r2"}
PolicyStores == {"s1", "s2"}
Loggers == {"l1"}

BuilderInit ==
    /\ BuilderIdle
    /\ AgingIdle
    /\ MaxPodsIdle
    /\ dataPoints = <<>>
    /\ acl = 0
    /\ perPodResources = 0
    /\ maxReplicas = 0
    /\ minReplicas = 0
    /\ SimIdle
    /\ SearchIdle
    /\ WfIdle
    /\ RecoIdle

BuilderFrame ==
    UNCHANGED <<simVars, searchVars, wfVars, recoVars, agingVars, maxPodsVars>>

\* workflow.go:58-65
WithRecommender(r) ==
    /\ builder' = IF builder.recommender = "nil"
                  THEN [builder EXCEPT !.recommender = r]
                  ELSE builder
    /\ UNCHANGED <<iteratorMap, built, builtWith, buildErr>>
    /\ BuilderFrame

\* workflow.go:67-75: the map is made on the first call and written in place after
WithPolicyIterator(name) ==
    /\ builder' = [builder EXCEPT !.policyIterators = "map"]
    /\ iteratorMap' = IF builder.policyIterators = "nil" THEN {name}
                      ELSE iteratorMap \cup {name}
    /\ UNCHANGED <<built, builtWith, buildErr>>
    /\ BuilderFrame

\* workflow.go:77-83
WithLogger(l) ==
    /\ builder' = IF builder.logger = "zero"
                  THEN [builder EXCEPT !.logger = l]
                  ELSE builder
    /\ UNCHANGED <<iteratorMap, built, builtWith, buildErr>>
    /\ BuilderFrame

\* workflow.go:85-88
WithMinRequiredReplicas(n) ==
    /\ builder' = [builder EXCEPT !.minRequiredReplicas = n]
    /\ UNCHANGED <<iteratorMap, built, builtWith, buildErr>>
    /\ BuilderFrame

\* workflow.go:90-93
WithPolicyStore(store) ==
    /\ builder' = [builder EXCEPT !.policyStore = store]
    /\ UNCHANGED <<iteratorMap, built, builtWith, buildErr>>
    /\ BuilderFrame

\* workflow.go:96-99, 103-105: what Build writes into the builder itself
BuilderAfterBuild(b, ok) ==
    [b EXCEPT !.logger = IF b.logger = "zero" THEN "zap" ELSE b.logger,
              !.minRequiredReplicas = IF ok /\ b.minRequiredReplicas = 0 THEN 3
                                      ELSE b.minRequiredReplicas]

\* The recommender, the iterators, the store and the floor Execute works with:
\* the workflow's fields, the map read through its reference.
UsedInExecute(workflow, mapKeys) ==
    [recommender |-> workflow.recommender,
     policyIterators |-> IF workflow.policyIterators = "nil" THEN {} ELSE mapKeys,
     policyStore |-> workflow.policyStore,
     minRequiredReplicas |-> workflow.minRequiredReplicas]

\* workflow.go:100-102: neither a recommender nor an iterator
BuildError ==
    /\ built = Nil
    /\ builder.recommender = "nil"
    /\ builder.policyIterators = "nil"
    /\ builder' = BuilderAfterBuild(builder, FALSE)
    /\ buildErr' = "Both recommender and policy iterators can't be nil"
    /\ UNCHANGED <<iteratorMap, built, builtWith>>
    /\ BuilderFrame

\* workflow.go:95-113: the workflow takes the builder's fields, the map by reference
Build ==
    /\ built = Nil
    /\ ~(builder.recommender = "nil" /\ builder.policyIterators = "nil")
    /\ builder' = BuilderAfterBuild(builder, TRUE)
    /\ built' = builder'
    /\ builtWith' = UsedInExecute(builder', iteratorMap)
    /\ buildErr' = "nil"
    /\ UNCHANGED iteratorMap
    /\ BuilderFrame

BuilderNext ==
    \/ \E r \in Recommenders : WithRecommender(r)
    \/ \E name \in IteratorNames : WithPolicyIterator(name)
    \/ \E l \in Loggers : WithLogger(l)
    \/ \E n \in 0 .. MaxMinRequired : WithMinRequiredReplicas(n)
    \/ \E store \in PolicyStores : WithPolicyStore(store)
    \/ BuildError
    \/ Build

SpecBuilder == BuilderInit /\ [][BuilderNext]_vars

-----------------------------------------------------------------------------
\* The stepwise run and the function simulateHPA agree (sanity of the model).
SimAgrees ==
    simPc \in {"loop", "returned"} /\ dataPoints # <<>> =>
        LET r == simulateHPA(dataPoints, acl, targetUtilization, perPodResources,
                             maxReplicas, minReplicas)
        IN r.sim = simulatedDataPoints /\ r.calcMin = calculatedMinReplicas

\* C2: monotone safety of the simulator: for targets t1 < t2, the supply of the
\* run with t1 is pointwise >= the supply of the run with t2 on the same series.
C2_MonotoneSafety ==
    simPc \in {"loop", "returned"} /\ dataPoints # <<>> =>
        \A t2 \in MinTarget .. MaxTarget :
            t2 > targetUtilization /\ EffectiveTarget(t2) \in 1 .. 100 =>
                LET other == simulateHPA(dataPoints, acl, t2, perPodResources,
                                         maxReplicas, minReplicas).sim
                IN \A i \in 1 .. Len(dataPoints) :
                      simulatedDataPoints[i].Value >= other[i].Value

\* The stepwise search and the function findOptimalHPAConfigurations agree.
SearchAgrees ==
    searchPc = "returned" =>
        searchResult = findOptimalHPAConfigurations(dataPoints, acl, minTarget,
                            maxTarget, perPodResources, maxReplicas)

\* C1: recommendation dominance: when the search returns without error, the
\* simulation of the returned (target, min, max) on the same series supplies at
\* least the demand at every data point.
C1_RecommendationDominance ==
    searchPc = "returned" /\ searchResult.err = "nil" =>
        LET again == simulateHPA(dataPoints, acl, searchResult.target,
                                 perPodResources, searchResult.max, searchResult.min)
        IN /\ ~again.err
           /\ Len(again.sim) = Len(dataPoints)
           /\ \A i \in 1 .. Len(dataPoints) :
                 again.sim[i].Value >= dataPoints[i].Value * RedLineDen

\* C1 witness: a search that returned a recommendation although a higher target
\* of its range is breached at the returned floor.
C1_Witness ==
    /\ searchPc = "returned"
    /\ searchResult.err = "nil"
    /\ searchResult.target < maxTarget
    /\ ~hasNoBreachOccurred(dataPoints,
            simulateHPA(dataPoints, acl, searchResult.target + 1, perPodResources,
                        searchResult.max, searchResult.min).sim)

\* The stepwise Execute and the function Execute agree for some iteration order.
ExecAgrees ==
    wfPc \in {"done", "panicked"} =>
        \E o \in IterationOrders :
            execResult = Execute(recommender, recommenderOut, o, iteratorOut, policyStoreOut,
                                 minRequiredReplicas)

\* The policies a state of the workflow holds.
StatePolicies ==
    {nextPolicy} \cup { iteratorOut[i].policy : i \in IteratorNames }

\* C3: pickSafestPolicy is commutative, associative, has nil as identity, and
\* returns the operand with the smaller riskIndex, for all policies of the
\* catalog, nil and distinct policies of equal riskIndex included.
C3_SafestPolicyLaws ==
    wfPc \in {"iterate", "done"} =>
        \A a \in StatePolicies : \A b, c \in CatalogPolicies \cup {Nil} :
            /\ pickSafestPolicy(a, b) = pickSafestPolicy(b, a)
            /\ pickSafestPolicy(pickSafestPolicy(a, b), c)
                 = pickSafestPolicy(a, pickSafestPolicy(b, c))
            /\ pickSafestPolicy(Nil, a) = a
            /\ pickSafestPolicy(a, Nil) = a
            /\ a # Nil /\ b # Nil =>
                 LET r == pickSafestPolicy(a, b)
                 IN /\ r \in {a, b}
                    /\ StringLeq(r.RiskIndex, a.RiskIndex)
                    /\ StringLeq(r.RiskIndex, b.RiskIndex)

ResultTriple(r) == <<r.nextConfig, r.targetRecoConfig, r.policy>>

\* C4: Execute is deterministic in its inputs: the returned triple (nextConfig,
\* targetRecoConfig, appliedPolicy) is the same for every order in which the
\* policyIterators map is iterated.
C4_ExecuteDeterministic ==
    wfPc \in {"done", "panicked"} =>
        \A o \in IterationOrders :
            ResultTriple(Execute(recommender, recommenderOut, o, iteratorOut, policyStoreOut,
                                 minRequiredReplicas))
              = ResultTriple(execResult)

\* C5: Execute chooses by shouldApplyReco on the post-floor recommendation and
\* the merged policy: when true, nextConfig is targetRecoConfig and the applied
\* policy is findClosestSafePolicy(targetRecoConfig, sorted policies); otherwise
\* nextConfig is derived from the merged policy, which is the applied policy.
C5_ChooseWhatToApply ==
    wfPc = "done" /\ execResult.err = "nil" =>
        IF shouldApplyReco(targetRecoConfig, nextPolicy)
        THEN /\ execResult.nextConfig = execResult.targetRecoConfig
             /\ execResult.policy
                  = findClosestSafePolicy(execResult.targetRecoConfig,
                                          policyStoreOut.policies)
        ELSE /\ execResult.nextConfig
                  = createRecoConfigFromPolicy(nextPolicy, targetRecoConfig).config
             /\ execResult.policy = nextPolicy

\* C6: shouldApplyReco(cfg, p) is true iff p is nil, or cfg is non-nil and
\* p.minReplicaPercentageCut = 100 and cfg.targetMetricValue < p.targetUtilization;
\* so a merged policy with cut < 100 is always the one Execute applies.
C6_ShouldApplyReco ==
    /\ wfPc \in {"iterate", "done"} =>
         (shouldApplyReco(targetRecoConfig, nextPolicy)
            <=> \/ nextPolicy = Nil
                \/ /\ targetRecoConfig # Nil
                   /\ nextPolicy.MinReplicaPercentageCut = 100
                   /\ targetRecoConfig.TargetMetricValue < nextPolicy.TargetUtilization)
    /\ (/\ wfPc = "done"
        /\ execResult.err = "nil"
        /\ nextPolicy # Nil
        /\ nextPolicy.MinReplicaPercentageCut < 100)
         => /\ execResult.policy = nextPolicy
            /\ execResult.nextConfig
                 = createRecoConfigFromPolicy(nextPolicy, targetRecoConfig).config

\* C6 witness: Execute applied a policy with cut < 100 over a recommendation
\* whose target is below the policy's.
C6_Witness ==
    /\ wfPc = "done"
    /\ execResult.err = "nil"
    /\ nextPolicy # Nil
    /\ targetRecoConfig # Nil
    /\ nextPolicy.MinReplicaPercentageCut < 100
    /\ targetRecoConfig.TargetMetricValue < nextPolicy.TargetUtilization
    /\ execResult.policy = nextPolicy
    /\ execResult.nextConfig # execResult.targetRecoConfig

\* Execute returned the configuration derived from the merged policy.
DerivedFromPolicy ==
    /\ wfPc = "done"
    /\ execResult.err = "nil"
    /\ targetRecoConfig # Nil
    /\ ~shouldApplyReco(targetRecoConfig, nextPolicy)

\* C7: the derived configuration has max = cfg.max, target = p.targetUtilization
\* and min = cfg.max - ceil(cut * (cfg.max - cfg.min) / 100), the ceiling of the
\* exact quotient, for every cut in 0..100 and 1 <= cfg.min <= cfg.max.
C7_DerivedMinIsExactCeiling ==
    (/\ DerivedFromPolicy
     /\ 1 <= targetRecoConfig.Min
     /\ targetRecoConfig.Min <= targetRecoConfig.Max)
      => /\ execResult.nextConfig.Max = targetRecoConfig.Max
         /\ execResult.nextConfig.TargetMetricValue = nextPolicy.TargetUtilization
         /\ execResult.nextConfig.Min
              = targetRecoConfig.Max
                  - CeilDiv(nextPolicy.MinReplicaPercentageCut
                              * (targetRecoConfig.Max - targetRecoConfig.Min), 100)

\* The scenario of C8: recommendation {1, 10, 40}, merged policy {cut 100, target 50}.
C8_Scenario ==
    /\ wfPc = "done"
    /\ execResult.err = "nil"
    /\ recommenderOut.config = HPAConfiguration(1, 10, 40)
    /\ nextPolicy # Nil
    /\ nextPolicy.MinReplicaPercentageCut = 100
    /\ nextPolicy.TargetUtilization = 50

C9_FloorPromotion ==
    wfPc \in {"iterate", "done"} /\ recommenderOut.config # Nil /\ recommenderOut.err = "nil"
      => /\ targetRecoConfig # Nil
         /\ targetRecoConfig.Max = recommenderOut.config.Max
         /\ targetRecoConfig.TargetMetricValue = recommenderOut.config.TargetMetricValue
         /\ recommenderOut.config.Max >= minRequiredReplicas
              => targetRecoConfig.Min >= minRequiredReplicas
         /\ ~(recommenderOut.config.Max >= minRequiredReplicas)
              => targetRecoConfig.Min = recommenderOut.config.Min
         /\ targetRecoConfig.Min >= recommenderOut.config.Min

\* C9 witness: a recommendation whose floor was promoted.
C9_Witness ==
    /\ wfPc = "iterate"
    /\ recommenderOut.config # Nil
    /\ recommenderOut.config.Min < minRequiredReplicas
    /\ targetRecoConfig.Min = minRequiredReplicas
    /\ targetRecoConfig.Min > recommenderOut.config.Min

\* Recommend returned after the scraper and getMaxPods both answered.
GateReached ==
    /\ recoPc = "returned"
    /\ Len(calls) >= 2
    /\ recoResult.err # "getMaxPods failed"

\* |series| / expected * 100 < metricsPercentageThreshold on the scraped series,
\* expected being the whole quotient of the window and the step in seconds.
InsufficientData ==
    (Len(scraped) * 100) \div (metricWindow \div metricStep) < metricsPercentageThreshold

ReturnedNoOp ==
    recoResult = [config |-> HPAConfiguration(maxReplicas, maxReplicas, minTarget),
                  err |-> "nil"]

GateCallsOnly ==
    calls = <<"GetAverageCPUUtilizationByWorkload", "getMaxPods">>

ProceededPastGate ==
    /\ Len(calls) > 2
    /\ calls[3] = IF metricsTransformer > 0 THEN "Transform" ELSE "GetACLByWorkload"

\* C10 as stated: Recommend returns the no-op configuration with a nil error
\* exactly when the data is insufficient, then without any call past the gate;
\* otherwise it proceeds to the transformers.
C10_NoOpExactlyWhenInsufficient ==
    GateReached =>
        /\ ReturnedNoOp <=> InsufficientData
        /\ InsufficientData => GateCallsOnly
        /\ ~InsufficientData => ProceededPastGate

\* C10 amended: once the scraper and getMaxPods have answered, insufficient data
\* makes Recommend return the no-op configuration with a nil error and no call
\* to a transformer, the cycle-lag fetch, the resource-limit fetch or the
\* search; with sufficient data it proceeds to the transformers (the cycle-lag
\* fetch when there is none), and it returns the same no-op configuration with
\* a nil error when the search ends in UnableToRecommend.
C10_InsufficientDataIsNoOp ==
    GateReached =>
        /\ InsufficientData => ReturnedNoOp /\ GateCallsOnly
        /\ ~InsufficientData => ProceededPastGate
        /\ (/\ ~InsufficientData
            /\ calls[Len(calls)] = "findOptimalHPAConfigurations"
            /\ searchResult.err = "unableToRecommend")
             => ReturnedNoOp

\* C10 witness: a scraped series that is not empty and still below the
\* threshold was answered with the no-op configuration.
C10_Witness ==
    /\ GateReached
    /\ InsufficientData
    /\ scraped # <<>>
    /\ ReturnedNoOp
    /\ GateCallsOnly

\* Recommend returned from the call of findOptimalHPAConfigurations.
ReturnedFromSearch ==
    /\ recoPc = "returned"
    /\ calls # <<>>
    /\ calls[Len(calls)] = "findOptimalHPAConfigurations"

\* C11: when the search fails with UnableToRecommend, Recommend returns a nil
\* error and the no-op configuration {min = max = maxReplicas, target = minTarget};
\* when the search succeeds it returns {min, max = maxReplicas, target} of the
\* search; UnableToRecommend never reaches the caller of Recommend.
C11_UnableToRecommendIsNoOp ==
    /\ recoPc = "returned" => recoResult.err # "unableToRecommend"
    /\ ReturnedFromSearch /\ searchResult.err = "unableToRecommend"
         => /\ recoResult.err = "nil"
            /\ recoResult.config.Min = maxReplicas
            /\ recoResult.config.Max = maxReplicas
            /\ recoResult.config.TargetMetricValue = minTarget
    /\ ReturnedFromSearch /\ searchResult.err = "nil"
         => /\ recoResult.err = "nil"
            /\ recoResult.config.Min = searchResult.min
            /\ recoResult.config.Max = maxReplicas
            /\ recoResult.config.TargetMetricValue = searchResult.target

\* C11 witness: a search over a series with demand ended in UnableToRecommend
\* and Recommend answered with the no-op configuration.
C11_Witness ==
    /\ ReturnedFromSearch
    /\ searchResult.err = "unableToRecommend"
    /\ \E i \in 1 .. Len(dataPoints) : dataPoints[i].Value > 0
    /\ maxReplicas >= 1
    /\ recoResult = [config |-> HPAConfiguration(maxReplicas, maxReplicas, minTarget),
                     err |-> "nil"]

\* C12: every collaborator failure met during Execute is surfaced: when the
\* recommender, a policy iterator, or GetSortedPolicies (read when the
\* recommendation is applied) fails, Execute returns that error.
C12_FailuresSurfaced ==
    wfPc = "done" /\ recommender # "nil" =>
        /\ recommenderOut.err # "nil" => execResult.err = recommenderOut.err
        /\ (/\ recommenderOut.err = "nil"
            /\ \E i \in IteratorNames : iteratorOut[i].err # "nil")
             => \E i \in IteratorNames :
                   iteratorOut[i].err # "nil" /\ execResult.err = iteratorOut[i].err
        /\ (/\ recommenderOut.err = "nil"
            /\ \A i \in IteratorNames : iteratorOut[i].err = "nil"
            /\ shouldApplyReco(targetRecoConfig, nextPolicy)
            /\ policyStoreOut.err # "nil")
             => execResult.err = policyStoreOut.err

\* C13: cancellation: when the caller's ctx is cancelled before or during
\* Execute, ahead of a collaborator call Execute goes on to make, Execute aborts:
\* it returns an error and no configuration instead of a recommendation.
C13_CancellationAborts ==
    wfPc = "done" /\ calledWhileCancelled =>
        /\ execResult.err # "nil"
        /\ execResult.nextConfig = Nil
        /\ execResult.targetRecoConfig = Nil

\* The last call of NextPolicy answered a policy.
AgingAnswered == agingOut.err = "nil"

C15_MaxPodsPrecedence ==
    maxPodsPc = "returned" =>
        /\ ~kindKnown
             => /\ maxPodsResult.err # "nil"
                /\ maxPodsCalls = <<"GetObjectClient">>
        /\ kindKnown /\ annotationOut.err = "nil"
             => maxPodsResult = [value |-> annotationOut.value, err |-> "nil"]
        /\ (/\ kindKnown
            /\ annotationOut.err # "nil"
            /\ maxPodsResult.err = "nil")
             => IF /\ scaledObjectsOut.items # <<>>
                   /\ scaledObjectsOut.items[1].set
                THEN maxPodsResult.value = scaledObjectsOut.items[1].value
                ELSE maxPodsResult.value = replicaCountOut.value

\* C15 witness: the annotation was missing, the first ScaledObject had no
\* maxReplicaCount while a later one had, and the replica count was returned.
C15_Witness ==
    /\ maxPodsPc = "returned"
    /\ kindKnown
    /\ annotationOut.err # "nil"
    /\ Len(scaledObjectsOut.items) = 2
    /\ ~scaledObjectsOut.items[1].set
    /\ scaledObjectsOut.items[2].set
    /\ scaledObjectsOut.items[2].value # replicaCountOut.value
    /\ maxPodsResult = [value |-> replicaCountOut.value, err |-> "nil"]

\* 1 <= min <= max
ValidReplicaRange(config) ==
    /\ 1 <= config.Min
    /\ config.Min <= config.Max

\* C16: every configuration Recommend returns and every nextConfig and
\* targetRecoConfig Execute returns with a nil error has 1 <= min <= max, and
\* every configuration Recommend returns has its target within
\* [minTarget, maxTarget], whatever the collaborators answer.
C16_ConfigurationInvariants ==
    /\ recoPc = "returned" /\ recoResult.err = "nil"
         => /\ ValidReplicaRange(recoResult.config)
            /\ recoResult.config.TargetMetricValue \in minTarget .. maxTarget
    /\ (/\ wfPc = "done"
        /\ execResult.err = "nil"
        /\ execResult.targetRecoConfig # Nil)
         => /\ ValidReplicaRange(execResult.targetRecoConfig)
            /\ ValidReplicaRange(execResult.nextConfig)

\* C17: a workflow without a recommender fails: Execute returns an error with
\* all three results nil and calls no policy iterator and no policy-store read.
C17_NoRecommenderFails ==
    wfPc \in {"iterate", "done", "panicked"} /\ recommender = "nil" =>
        /\ wfPc = "done"
        /\ execResult.err \notin {"nil", "none"}
        /\ execResult.nextConfig = Nil
        /\ execResult.targetRecoConfig = Nil
        /\ execResult.policy = Nil
        /\ pendingIterators = IteratorNames
        /\ ~storeRead

\* C17 witness: Execute failed for want of a recommender although both policy
\* iterators had a policy to give.
C17_Witness ==
    /\ wfPc = "done"
    /\ recommender = "nil"
    /\ \A i \in IteratorNames : iteratorOut[i].policy # Nil
    /\ execResult = ErrorResult("No recommenders configured in the workflow.")

\* C18: a built workflow is immutable: after Build has returned, no later call
\* on the builder changes the recommender, the set of policy iterators, the
\* policy store or minRequiredReplicas the built workflow uses in Execute.
C18_BuiltWorkflowImmutable ==
    built # Nil => UsedInExecute(built, iteratorMap) = builtWith

\* The series is constant and no target of the range breaches under any floor.
FlatAndBreachFree ==
    /\ Len(dataPoints) > 0
    /\ \A i \in 1 .. Len(dataPoints) : dataPoints[i].Value = dataPoints[1].Value
    /\ EffectiveTarget(maxTarget) <= 100
    /\ \A t \in minTarget .. maxTarget, m \in 1 .. maxReplicas :
           LET r == simulateHPA(dataPoints, acl, t, perPodResources, maxReplicas, m)
           IN ~r.err /\ hasNoBreachOccurred(dataPoints, r.sim)

\* The replicas the constant demand asks for at maxTarget, at least 1.
FlatFloor ==
    Max2(1, CeilDiv(100 * dataPoints[1].Value,
                    EffectiveTarget(maxTarget) * perPodResources))

\* C19 as stated: on the flat demand scenario the search returns
\* {min = 1, max = 10, target = 60}, and on every constant series that no
\* target in range breaches the returned target is maxTarget and the returned
\* floor is 1.
C19_FlatDemandFloorOne ==
    searchPc = "returned" =>
        /\ FlatDemand =>
               searchResult = [target |-> 60, min |-> 1, max |-> 10, err |-> "nil"]
        /\ FlatAndBreachFree /\ searchResult.err = "nil" =>
               /\ searchResult.target = maxTarget
               /\ searchResult.min = 1

\* C19 amended: on the flat demand scenario the search returns
\* {min = 4, max = 10, target = 60}; on every constant series that no target in
\* range breaches, the search returns maxTarget with the floor the demand asks
\* for at maxTarget (at least 1) when that floor is below maxReplicas, and
\* UnableToRecommend otherwise.
C19_FlatDemandFloorIsObservedMin ==
    searchPc = "returned" =>
        /\ FlatDemand =>
               searchResult = [target |-> 60, min |-> 4, max |-> 10, err |-> "nil"]
        /\ FlatAndBreachFree =>
               IF FlatFloor < maxReplicas
               THEN searchResult = [target |-> maxTarget, min |-> FlatFloor,
                                    max |-> maxReplicas, err |-> "nil"]
               ELSE searchResult.err = "unableToRecommend"

\* C19 witness: the search returned on the flat demand scenario, with positive
\* savings.
C19_Witness ==
    /\ searchPc = "returned"
    /\ FlatDemand
    /\ FlatAndBreachFree
    /\ searchResult.err = "nil"
    /\ savings.num > 0

\* The targets of the range that do not breach under floor m.
BreachFreeTargets(m) ==
    { t \in minTarget .. maxTarget :
        LET r == simulateHPA(dataPoints, acl, t, perPodResources, maxReplicas, m)
        IN ~r.err /\ hasNoBreachOccurred(dataPoints, r.sim) }

\* C20: for every candidate floor m the target the inner binary search settles
\* on is the largest t in [minTarget, maxTarget] whose simulation has no breach
\* (supply = demand not being a breach), and it is below minTarget only when
\* no t in the range is breach-free.
C20_InnerSearchFindsLargestSafeTarget ==
    /\ searchPc \in {"loop", "returned"}
    /\ minReplicas > 1
    /\ EffectiveTarget(maxTarget) <= 100
    => LET safe == BreachFreeTargets(minReplicas - 1)
       IN IF safe = {}
          THEN high < minTarget
          ELSE /\ high \in safe
               /\ \A t \in safe : t <= high

\* The outer loop has just recorded the candidate of floor minReplicas - 1.
CandidateRecorded ==
    /\ searchPc = "loop"
    /\ minReplicas > 1
    /\ optimalMin = minReplicas - 1
    /\ optimalTargetThreshold >= minTarget

\* C21: a recorded candidate (m, t) is admitted and scored from its own
\* simulation: the observed minimum of simulateHPA run with target t and floor
\* m is <= m, and the savings kept for it are the savings of the supply series
\* of that same run.
C21_CandidateScoredFromOwnRun ==
    CandidateRecorded =>
        LET own == simulateHPA(dataPoints, acl, optimalTargetThreshold,
                               perPodResources, maxReplicas, optimalMin)
        IN /\ own.calcMin <= optimalMin
           /\ savings = calculateSavings(maxReplicas, own.sim, perPodResources)

\* The search returned without a simulation error.
SearchDecided ==
    /\ searchPc = "returned"
    /\ searchResult.err \in {"nil", "unableToRecommend"}

\* The candidate of floor m: the target the inner search settles on, admitted
\* and scored from simulateHPA run with that target and floor m.
AdmittedWithSavings(m) ==
    LET t == InnerSearch(dataPoints, acl, minTarget, maxTarget, perPodResources,
                         maxReplicas, m, <<>>, 0).high
        own == simulateHPA(dataPoints, acl, t, perPodResources, maxReplicas, m)
    IN /\ t >= minTarget
       /\ Len(own.sim) > 0
       /\ own.calcMin <= m
       /\ ~SavingsIsZero(calculateSavings(maxReplicas, own.sim, perPodResources))

\* C22: findOptimalHPAConfigurations fails with UnableToRecommend exactly when
\* no admitted candidate has savings > 0 with target >= minTarget (an empty
\* series and maxReplicas = 0 included); otherwise it returns a target in
\* [minTarget, maxTarget], a floor in 1..maxReplicas and max = maxReplicas.
C22_UnableExactlyWhenNoSavings ==
    SearchDecided =>
        IF \E m \in 1 .. maxReplicas : AdmittedWithSavings(m)
        THEN /\ searchResult.err = "nil"
             /\ searchResult.target \in minTarget .. maxTarget
             /\ searchResult.min \in 1 .. maxReplicas
             /\ searchResult.max = maxReplicas
        ELSE searchResult.err = "unableToRecommend"

\* The candidate of floor m with its own run: [target, admitted, savings].
OwnCandidate(m) ==
    LET t == InnerSearch(dataPoints, acl, minTarget, maxTarget, perPodResources,
                         maxReplicas, m, <<>>, 0).high
        own == simulateHPA(dataPoints, acl, t, perPodResources, maxReplicas, m)
    IN [target   |-> t,
        admitted |-> t >= minTarget /\ Len(own.sim) > 0 /\ own.calcMin <= m,
        savings  |-> IF Len(own.sim) > 0
                     THEN calculateSavings(maxReplicas, own.sim, perPodResources)
                     ELSE ZeroSavings]

\* C23: among the admitted candidates the one the search returns has the
\* greatest savings, and of several floors with that greatest savings the
\* largest is returned.
C23_GreatestSavingsLargestFloor ==
    searchPc = "returned" /\ searchResult.err = "nil" =>
        LET won == OwnCandidate(searchResult.min)
        IN /\ won.admitted
           /\ won.target = searchResult.target
           /\ \A m \in 1 .. maxReplicas :
                 OwnCandidate(m).admitted =>
                    /\ won.savings.num * OwnCandidate(m).savings.den
                         >= OwnCandidate(m).savings.num * won.savings.den
                    /\ won.savings.num * OwnCandidate(m).savings.den
                         = OwnCandidate(m).savings.num * won.savings.den
                         => m <= searchResult.min

\* The timers pending before a step that fire at or before timestamp ts.
FiredBy(ts) ==
    { k \in 1 .. Len(readyResourcesTimerList) :
        readyResourcesTimerList[k].Timestamp <= ts }

RECURSIVE SumFired(_)
SumFired(ks) ==
    IF ks = {} THEN 0
    ELSE LET k == CHOOSE x \in ks : TRUE
         IN readyResourcesTimerList[k].Delta + SumFired(ks \ {k})

\* A loop iteration of simulateHPA that leaves readyResources higher.
ReadyGrows ==
    /\ simPc = "loop"
    /\ Len(dataPoints') = Len(dataPoints) + 1
    /\ readyResources' > readyResources

\* C24 as stated: every increase of readyResources between a step i and a later
\* step j is explained by a TimerEvent scheduled at a step k in [i, j] that
\* fires at or before the timestamp of step j (here j = i + 1).
C24_UpscaleScheduledWithinWindow ==
    [][ReadyGrows =>
         \E k \in FiredBy(dataPoints'[Len(dataPoints')].Timestamp) :
             readyResourcesTimerList[k].Timestamp - acl
                 >= dataPoints[Len(dataPoints)].Timestamp]_vars

\* C24 amended: readyResources never grows without a drained timer: every
\* increase over one step is at most the sum of the pending TimerEvents that
\* fire at or before the step's timestamp, there is at least one, and each was
\* scheduled at an earlier step (possibly before step i).
C24_NoPhantomUpscale ==
    [][ReadyGrows =>
         LET ts == dataPoints'[Len(dataPoints')].Timestamp
         IN /\ FiredBy(ts) # {}
            /\ readyResources' - readyResources <= SumFired(FiredBy(ts))
            /\ \A k \in FiredBy(ts) :
                  readyResourcesTimerList[k].Timestamp - acl < ts]_vars

\* C24 witness: with a lag of two steps readyResources grew at the last step
\* after staying level at the step before: the timer that explains the growth
\* was scheduled before that step.
C24_Witness ==
    /\ simPc = "loop"
    /\ acl = 2 * MetricStep
    /\ Len(simulatedDataPoints) >= 3
    /\ LET n == Len(simulatedDataPoints)
       IN /\ simulatedDataPoints[n].Value > simulatedDataPoints[n - 1].Value
          /\ simulatedDataPoints[n - 1].Value = simulatedDataPoints[n - 2].Value

\* C25: at every data point after the first, with readyResources and the
\* pending queue taken after the due timers were consumed: if newResources <=
\* readyResources then readyResources becomes newResources at that step and
\* the queue is emptied; if newResources > readyResources then readyResources
\* stays and only the part of the shortfall not already pending is queued, to
\* fire at timestamp + acl, so that after an insertion readyResources plus the
\* pending deltas equals newResources.
C25_ScalingStep ==
    [][simPc = "loop" /\ Len(dataPoints') = Len(dataPoints) + 1 =>
         LET dp == dataPoints'[Len(dataPoints')]
             fired == FiredBy(dp.Timestamp)
             ready == readyResources + SumFired(fired)
             pending == SubSeq(readyResourcesTimerList, Cardinality(fired) + 1,
                               Len(readyResourcesTimerList))
             newResources ==
                 ClampReplicas(DesiredReplicas(dp.Value,
                                               EffectiveTarget(targetUtilization),
                                               perPodResources),
                               maxReplicas, minReplicas) * perPodResources
         IN IF newResources <= ready
            THEN /\ readyResources' = newResources
                 /\ readyResourcesTimerList' = <<>>
            ELSE /\ readyResources' = ready
                 /\ IF SumDelta(pending) >= newResources - ready
                    THEN readyResourcesTimerList' = pending
                    ELSE /\ Len(readyResourcesTimerList') = Len(pending) + 1
                         /\ SubSeq(readyResourcesTimerList', 1, Len(pending)) = pending
                         /\ readyResourcesTimerList'[Len(pending) + 1].Timestamp
                              = dp.Timestamp + acl
                         /\ readyResources' + SumDelta(readyResourcesTimerList')
                              = newResources]_vars

\* C25 witness: two upscales are pending, the second one queued for the part
\* of the shortfall the first did not cover.
C25_Witness ==
    /\ simPc = "loop"
    /\ Len(readyResourcesTimerList) = 2
    /\ readyResourcesTimerList[2].Delta > 0
    /\ readyResourcesTimerList[1].Timestamp < readyResourcesTimerList[2].Timestamp

\* The collaborator calls of a complete Recommend, in the order of the code.
CallOrder ==
    <<"GetAverageCPUUtilizationByWorkload", "getMaxPods">>
    \o [i \in 1 .. metricsTransformer |-> "Transform"]
    \o <<"GetACLByWorkload", "getContainerCPULimitsSum",
         "findOptimalHPAConfigurations">>

\* The error Recommend returns when the call fails.
FailureOf(call) ==
    CASE call = "GetAverageCPUUtilizationByWorkload"
             -> "GetAverageCPUUtilizationByWorkload failed"
      [] call = "getMaxPods" -> "getMaxPods failed"
      [] call = "Transform" -> "Transform failed"
      [] call = "GetACLByWorkload" -> "GetACLByWorkload failed"
      [] call = "getContainerCPULimitsSum" -> "getContainerCPULimitsSum failed"
      [] call = "findOptimalHPAConfigurations" -> "simulate"

\* C26: Recommend calls its collaborators in the fixed order scrape,
\* getMaxPods, (sufficiency gate), transformers in list order, cycle-lag
\* fetch, resource-limit fetch, search; a failure at any step makes Recommend
\* return that step's error with a nil configuration and no later step is
\* invoked; a run that returns a configuration stopped at the gate or made
\* every call.
C26_FixedOrderAbortOnFailure ==
    /\ Len(calls) <= Len(CallOrder)
    /\ calls = SubSeq(CallOrder, 1, Len(calls))
    /\ Len(calls) > 2 =>
          isMetricsAboveThreshold(scraped, metricWindow, metricStep,
                                  metricsPercentageThreshold)
    /\ recoPc = "returned" =>
          IF recoResult.err # "nil"
          THEN /\ recoResult.config = Nil
               /\ Len(calls) >= 1
               /\ recoResult.err = FailureOf(calls[Len(calls)])
          ELSE /\ recoResult.config # Nil
               /\ \/ calls = CallOrder
                  \/ /\ Len(calls) = 2
                     /\ ~isMetricsAboveThreshold(scraped, metricWindow, metricStep,
                                                  metricsPercentageThreshold)

\* C26 witness: the second of two transformers failed: Recommend returned its
\* error and neither the cycle lag nor the limits nor the search was asked for.
C26_Witness ==
    /\ recoPc = "returned"
    /\ metricsTransformer = 2
    /\ calls = <<"GetAverageCPUUtilizationByWorkload", "getMaxPods",
                 "Transform", "Transform">>
    /\ recoResult = [config |-> Nil, err |-> "Transform failed"]

\* C27: when the recommender returns a nil configuration with a nil error and
\* a non-nil policy is merged, so that the derivation is given a nil
\* recommendation, Execute returns an error, not a nil nextConfig with a nil
\* error.
C27_NilRecommendationSurfaced ==
    (/\ wfPc = "done"
     /\ recommender # "nil"
     /\ recommenderOut = [config |-> Nil, err |-> "nil"]
     /\ pendingIterators = {}
     /\ nextPolicy # Nil)
        => execResult.err \notin {"nil", "none"}

\* Execute returned a recommendation whose floor is not above its cap.
ExecutedOnOrderedReco ==
    /\ wfPc = "done"
    /\ execResult.err = "nil"
    /\ execResult.targetRecoConfig # Nil
    /\ execResult.targetRecoConfig.Min <= execResult.targetRecoConfig.Max

\* C28: the configuration to apply never has a lower floor or a different cap
\* than the raw recommendation: for every merged policy and every
\* targetRecoConfig with min <= max, targetRecoConfig.min <= nextConfig.min <=
\* nextConfig.max = targetRecoConfig.max.
C28_FloorAndCapKept ==
    ExecutedOnOrderedReco =>
        /\ execResult.nextConfig # Nil
        /\ execResult.targetRecoConfig.Min <= execResult.nextConfig.Min
        /\ execResult.nextConfig.Min <= execResult.nextConfig.Max
        /\ execResult.nextConfig.Max = execResult.targetRecoConfig.Max

\* C28 witness: a policy with a cut of 50 was applied and the floor to apply
\* lies strictly between the recommendation's floor and its cap.
C28_Witness ==
    /\ ExecutedOnOrderedReco
    /\ execResult.policy # Nil
    /\ execResult.policy.MinReplicaPercentageCut = 50
    /\ execResult.nextConfig # Nil
    /\ execResult.targetRecoConfig.Min < execResult.nextConfig.Min
    /\ execResult.nextConfig.Min < execResult.nextConfig.Max

\* Execute returned both a recommendation and a configuration to apply.
ExecutedWithBoth ==
    /\ wfPc = "done"
    /\ execResult.err = "nil"
    /\ execResult.targetRecoConfig # Nil
    /\ execResult.nextConfig # Nil

\* C29 as stated: for every outcome of the policy iterators the configuration
\* to apply has nextConfig.targetMetricValue <= targetRecoConfig.targetMetricValue.
C29_TargetNeverAboveReco ==
    ExecutedWithBoth =>
        execResult.nextConfig.TargetMetricValue
            <= execResult.targetRecoConfig.TargetMetricValue

\* C29 amended: when the merged policy is nil or has minReplicaPercentageCut =
\* 100, nextConfig.targetMetricValue <= targetRecoConfig.targetMetricValue; a
\* merged policy with a smaller cut is applied with its own targetUtilization.
C29_FullCutTargetNeverAboveReco ==
    ExecutedWithBoth =>
        IF nextPolicy = Nil \/ nextPolicy.MinReplicaPercentageCut = 100
        THEN execResult.nextConfig.TargetMetricValue
                 <= execResult.targetRecoConfig.TargetMetricValue
        ELSE execResult.nextConfig.TargetMetricValue = nextPolicy.TargetUtilization

\* C29 witness: the merged policy cuts 100 and aims above the recommended
\* target, and the recommendation's target is the one to apply.
C29_Witness ==
    /\ ExecutedWithBoth
    /\ nextPolicy # Nil
    /\ nextPolicy.MinReplicaPercentageCut = 100
    /\ nextPolicy.TargetUtilization > execResult.targetRecoConfig.TargetMetricValue
    /\ execResult.nextConfig.TargetMetricValue
         = execResult.targetRecoConfig.TargetMetricValue

====
